---- MODULE Spec2Model ----
(***************************************************************************)
(* Issue-event reconciliation of topcoder-x-processor (IssueService).      *)
(*                                                                         *)
(* Every `await` of the service is one step of the model: an action is the *)
(* completion of the awaited call (its effect on the record store or on    *)
(* the challenge platform, or its rejection) followed by the synchronous   *)
(* code up to the next await.  Events in flight interleave only at these   *)
(* points, as on the single-threaded runtime the service runs on.          *)
(***************************************************************************)
EXTENDS Integers, Sequences, FiniteSets, TLC

(* ------------------------------ bounds -------------------------------- *)
\* events taken from the queue in one run (first deliveries)
MaxEvents == 2
\* re-deliveries of one event after a reported failure
MaxRetry == 1

(* --------------------------- configuration ---------------------------- *)
OPEN_FOR_PICKUP_ISSUE_LABEL == "open_for_pickup"
NOT_READY_ISSUE_LABEL == "not_ready"
ASSIGNED_ISSUE_LABEL == "assigned"
FIX_ACCEPTED_ISSUE_LABEL == "fix_accepted"
PAID_ISSUE_LABEL == "paid"

\* role id 14 for copilot, role 1 for registrant
COPILOT_ROLE == 14
REGISTRANT_ROLE == 1

(* ------------------------------ values -------------------------------- *)
\* null / undefined of an object-valued variable
Null == [tag |-> "null"]
\* a promise that was not awaited: an object, truthy, with no own fields
Promise == [tag |-> "promise"]
\* null / undefined of a string- or date-valued field
NULL == "null"
\* no challenge id (undefined challengeId)
NoId == 0

Truthy(v) == v # Null
\* v.status as JavaScript evaluates it (undefined on an object without it)
StatusOf(v) == IF "status" \in DOMAIN v THEN v.status ELSE "undefined"

Providers == {"github", "gitlab"}
Procs == {1, 2}
\* the sequential service handles one event at a time, in slot 1
SeqProcs == {1}

\* tracker users: one mapped to a platform handle, one not
MappedUser == "u1"
UnmappedUser == "u2"
Users == {MappedUser, UnmappedUser}

\* gitHubService/gitlabService.getUsernameById
getUsernameById(id) == IF id = MappedUser THEN "alice" ELSE "bob"
\* gitlabService.getUserIdByLogin
getUserIdByLogin(login) == IF login = "alice" THEN MappedUser ELSE UnmappedUser
\* userService.getTCUserName: the mapping of a tracker user id, or null
getTCUserName(id) ==
  IF id = MappedUser THEN [topcoderUsername |-> "tc_alice"] ELSE Null
\* topcoderApiHelper.getTopcoderMemberId
getTopcoderMemberId(handle) == IF handle = "tc_alice" THEN "m_alice" ELSE "m_copilot"
CopilotHandle == "tc_copilot"

\* _.includes on an array
Includes(seq, x) == \E i \in 1..Len(seq) : seq[i] = x
\* _(array).filter(i => i !== x)
Without(seq, x) == SelectSeq(seq, LAMBDA i : i # x)

(* ------------------------------ state --------------------------------- *)
VARIABLES
  db,          \* models.Issue: the set of persisted issue records
  challenges,  \* the challenge platform: challenges[c] is the challenge with id c
  detached,    \* calls started without await and timers, not yet run
  delivered,   \* number of events taken from the queue so far
  nextId,      \* helper.generateIdentifier: number of identifiers handed out
  repo,        \* the repository the events of this run come from
  ctl,         \* per event slot: position, call stack, outcome
  event,       \* per event slot: the event object
  issue,       \* per event slot: the issue object built by process()
  local,       \* per event slot: local variables of the running functions
  trace        \* per event slot: the collaborator calls made so far

vars ==
  <<db, challenges, detached, delivered, nextId, repo, ctl, event, issue,
    local, trace>>

(* --------------------------- record store ----------------------------- *)
KeyOf(r) == <<r.number, r.provider, r.repositoryId>>
\* the records a {number, provider, repositoryId} filter selects
Matching(store, i) == {r \in store : KeyOf(r) = KeyOf(i)}
\* dbHelper.scanOne: the first record of a scan, or nothing
ScanResults(store, i) ==
  IF Matching(store, i) = {} THEN {Null} ELSE Matching(store, i)
HasId(store, id) == \E r \in store : r.id = id
ById(store, id) == CHOOSE r \in store : r.id = id
\* Object.assign(record, patch)
Assign(r, patch) ==
  [f \in DOMAIN r |-> IF f \in DOMAIN patch THEN patch[f] ELSE r[f]]
\* dbHelper.update: the record with this id, with the patch's fields set
Updated(store, id, patch) ==
  {IF r.id = id THEN Assign(r, patch) ELSE r : r \in store}

(* --------------------------- control flow ----------------------------- *)
Idle == [pc |-> "idle", stack |-> <<>>, handler |-> "none",
         outcome |-> "none", err |-> "none"]

Goto(c, l) == [c EXCEPT !.pc = l]
\* a call: `ret` is where the caller continues, `catch` the caller's catch
\* block when the call site is inside a try ("" when it is not)
Call(c, entry, ret, catch) ==
  [c EXCEPT !.pc = entry,
            !.stack = <<[ret |-> ret, catch |-> catch]>> \o @]
Return(c) ==
  IF c.stack = <<>>
  THEN [c EXCEPT !.pc = "done", !.outcome = "returned"]
  ELSE [c EXCEPT !.pc = Head(c.stack).ret, !.stack = Tail(c.stack)]
\* an exception leaving the running function: it unwinds to the nearest
\* call site inside a try, or leaves the handler
RECURSIVE Raise(_, _)
Raise(c, e) ==
  IF c.stack = <<>>
  THEN [c EXCEPT !.pc = "done", !.outcome = "raised", !.err = e]
  ELSE IF Head(c.stack).catch # ""
       THEN [c EXCEPT !.pc = Head(c.stack).catch, !.stack = Tail(c.stack),
                      !.err = e]
       ELSE Raise([c EXCEPT !.stack = Tail(c.stack)], e)
\* an exception inside a try block of the running function
Catch(c, l, e) == [c EXCEPT !.pc = l, !.err = e]

Call1(op, arg, res) == [op |-> op, arg |-> arg, res |-> res]
Res(ok) == IF ok THEN "ok" ELSE "fail"

LocalInit ==
  [dbIssue |-> Null, created |-> Null, project |-> Null,
   userMapping |-> Null, assigneeMember |-> Null, closeChallenge |-> FALSE,
   reOpen |-> FALSE, comment |-> NULL, rollbackUser |-> NULL,
   assigneeUserId |-> NULL, winnerId |-> NULL]

NoEvent ==
  [event |-> "none", provider |-> "github", labels |-> <<>>,
   assignees |-> <<>>, assignee |-> NULL, title |-> "t1", body |-> "b1",
   prizes |-> <<100>>, paymentSuccessful |-> FALSE, retryCount |-> 0]

NoIssue ==
  [number |-> 0, title |-> NULL, body |-> NULL, provider |-> "github",
   repositoryId |-> 0, labels |-> <<>>, prizes |-> <<>>, assignee |-> NULL,
   challengeId |-> NoId]

(* ------------------------------ events -------------------------------- *)
Ev(kind, labels, assignees, assignee, title, body, prizes, paid) ==
  [event |-> kind, labels |-> labels, assignees |-> assignees,
   assignee |-> assignee, title |-> title, body |-> body, prizes |-> prizes,
   paymentSuccessful |-> paid, retryCount |-> 0]

CreatedLabels == {<<>>, <<OPEN_FOR_PICKUP_ISSUE_LABEL, ASSIGNED_ISSUE_LABEL>>}
CreatedEvents ==
  {Ev("issue.created", l, a, NULL, "t1", "b1", <<100>>, FALSE) :
     l \in CreatedLabels,
     a \in {<<>>, <<MappedUser>>, <<UnmappedUser>>}}
  \cup {Ev("issue.created", <<>>, <<>>, NULL, "t1", "b1", <<100, 50>>, FALSE)}

UpdatedEvents ==
  {Ev("issue.updated", <<>>, <<>>, NULL, c[1], c[2], c[3], FALSE) :
     c \in {<<"t1", "b1", <<100>>>>, <<"t2", "b1", <<100>>>>,
            <<"t1", "b2", <<100>>>>, <<"t1", "b1", <<100, 50>>>>,
            <<"t1", "b1", <<100, 60>>>>, <<"t1", "b1", <<50>>>>}}

ClosedLabels ==
  {<<>>, <<FIX_ACCEPTED_ISSUE_LABEL>>, <<PAID_ISSUE_LABEL>>,
   <<FIX_ACCEPTED_ISSUE_LABEL, PAID_ISSUE_LABEL>>}
ClosedEvents ==
  {Ev("issue.closed", l, <<>>, a, "t1", "b1", z, paid) :
     l \in ClosedLabels, a \in Users \cup {NULL},
     z \in {<<100>>, <<0>>}, paid \in BOOLEAN}

AssignedLabels ==
  {<<>>, <<OPEN_FOR_PICKUP_ISSUE_LABEL>>, <<NOT_READY_ISSUE_LABEL>>}
AssignedEvents ==
  UNION {{Ev("issue.assigned", l, as, a, "t1", "b1", <<100>>, FALSE) :
            as \in {<<>>, <<a>>}} :
          l \in AssignedLabels, a \in Users}

LabelUpdatedEvents ==
  {Ev("issue.labelUpdated", l, <<>>, NULL, "t1", "b1", <<100>>, FALSE) :
     l \in {<<>>, <<OPEN_FOR_PICKUP_ISSUE_LABEL>>,
            <<OPEN_FOR_PICKUP_ISSUE_LABEL, ASSIGNED_ISSUE_LABEL>>}}

UnassignedEvents ==
  {Ev("issue.unassigned", l, <<>>, NULL, "t1", "b1", <<100>>, FALSE) :
     l \in {<<>>, <<ASSIGNED_ISSUE_LABEL>>}}

Events ==
  CreatedEvents \cup UpdatedEvents \cup ClosedEvents \cup AssignedEvents
    \cup LabelUpdatedEvents \cup UnassignedEvents

(* --------------------------- initial state ---------------------------- *)
\* a record of another issue of the same repository, created earlier
Bystander(r) ==
  [id |-> 1, number |-> 2, provider |-> r.provider, repositoryId |-> r.id,
   title |-> "t0", body |-> "b0", prizes |-> <<100>>, labels |-> <<>>,
   assignee |-> NULL, assignedAt |-> NULL, challengeId |-> 1,
   status |-> "challenge_creation_successful"]
\* a record the issue's last creation left in challenge_creation_failed
FailedRecord(r) ==
  [id |-> 2, number |-> 1, provider |-> r.provider, repositoryId |-> r.id,
   title |-> "t1", body |-> "b1", prizes |-> <<100>>, labels |-> <<>>,
   assignee |-> NULL, assignedAt |-> NULL, challengeId |-> NoId,
   status |-> "challenge_creation_failed"]
\* a challenge as createChallenge leaves it
NewChallenge(i) ==
  [number |-> i.number, provider |-> i.provider,
   repositoryId |-> i.repositoryId, status |-> "draft", resources |-> {},
   closed |-> 0]

Init ==
  /\ repo \in {[provider |-> pr, id |-> 1] : pr \in Providers}
  /\ db \in {{Bystander(repo)}, {Bystander(repo), FailedRecord(repo)}}
  /\ challenges = <<NewChallenge(Bystander(repo))>>
  /\ detached = {}
  /\ delivered = 0
  /\ nextId = 2
  /\ ctl = [p \in Procs |-> Idle]
  /\ event = [p \in Procs |-> NoEvent]
  /\ issue = [p \in Procs |-> NoIssue]
  /\ local = [p \in Procs |-> LocalInit]
  /\ trace = [p \in Procs |-> <<>>]

(* ------------------------------ process ------------------------------- *)
\* the issue object process() builds from the event
IssueOf(e) ==
  [number |-> 1, title |-> e.title, body |-> e.body, provider |-> e.provider,
   repositoryId |-> repo.id, labels |-> e.labels, prizes |-> e.prizes,
   assignee |-> IF e.assignees # <<>> THEN getUsernameById(e.assignees[1])
                ELSE NULL,
   challengeId |-> NoId]

\* the handler process() dispatches the event to, entered up to its first
\* await
Dispatch(kind) ==
  CASE kind = "issue.created" ->
         [Idle EXCEPT !.pc = "create_getProjectDetail",
                      !.handler = "handleIssueCreate"]
    [] kind = "issue.updated" ->
         Call([Idle EXCEPT !.handler = "handleIssueUpdate"],
              "ensure", "update_ensured", "update_catch")
    [] kind = "issue.closed" ->
         Call([Idle EXCEPT !.handler = "handleIssueClose"],
              "ensure", "close_ensured", "close_catch")
    [] kind = "issue.assigned" ->
         [Idle EXCEPT !.pc = "assign_getTCUserName",
                      !.handler = "handleIssueAssignment"]
    [] kind = "issue.labelUpdated" ->
         Call([Idle EXCEPT !.handler = "handleIssueLabelUpdated"],
              "ensure", "label_ensured", "label_catch")
    [] kind = "issue.unassigned" ->
         Call([Idle EXCEPT !.handler = "handleIssueUnAssignment"],
              "ensure", "unassign_ensured", "unassign_catch")

\* process(event): validation, the issue object, the copilot, dispatch.
\* A failure before the dispatch (no project for the repository, no prize
\* in the title, a rejected lookup) leaves process() with no handler run.
Start(p, e, ok) ==
  /\ event' = [event EXCEPT ![p] = e]
  /\ issue' = [issue EXCEPT ![p] = IF ok THEN IssueOf(e) ELSE NoIssue]
  /\ local' = [local EXCEPT ![p] = LocalInit]
  /\ trace' = [trace EXCEPT ![p] = <<>>]
  /\ ctl' = [ctl EXCEPT ![p] =
              IF ok THEN Dispatch(e.event) ELSE Raise(Idle, "Error")]

process(p, menu) ==
  /\ ctl[p].pc = "idle"
  /\ delivered < MaxEvents
  /\ \E e \in menu, ok \in BOOLEAN :
       Start(p, [provider |-> repo.provider] @@ e, ok)
  /\ delivered' = delivered + 1
  /\ UNCHANGED <<db, challenges, detached, nextId, repo>>

\* the event leaves the service
Complete(p) ==
  /\ ctl[p].pc = "done"
  /\ ctl' = [ctl EXCEPT ![p] = Idle]
  /\ event' = [event EXCEPT ![p] = NoEvent]
  /\ issue' = [issue EXCEPT ![p] = NoIssue]
  /\ local' = [local EXCEPT ![p] = LocalInit]
  /\ trace' = [trace EXCEPT ![p] = <<>>]
  /\ UNCHANGED <<db, challenges, detached, delivered, nextId, repo>>

\* the event is scheduled again after handleEventGracefully reported a
\* failure of its handling; the event object keeps its paymentSuccessful
Reported(t) == \E i \in 1..Len(t) : t[i].op = "handleEventGracefully"
Redeliver(p) ==
  /\ ctl[p].pc = "done"
  /\ Reported(trace[p])
  /\ event[p].retryCount < MaxRetry
  /\ Start(p, [event[p] EXCEPT !.retryCount = @ + 1], TRUE)
  /\ UNCHANGED <<db, challenges, detached, delivered, nextId, repo>>

\* shorthand of the steps: what one step of slot p leaves unchanged
Log(p, entries) == trace' = [trace EXCEPT ![p] = @ \o entries]
Jump(p, c) == ctl' = [ctl EXCEPT ![p] = c]
Set(p, patch) == local' = [local EXCEPT ![p] = Assign(@, patch)]

(* -------------------------- handleIssueCreate ------------------------- *)
\* line 505: await getProjectDetail(issue, event)
create_getProjectDetail(p) ==
  /\ ctl[p].pc = "create_getProjectDetail"
  /\ \E r \in {"found", "none", "fail"} :
       /\ Log(p, <<Call1("scanOne", "Project", IF r = "fail" THEN "fail" ELSE "ok")>>)
       /\ Jump(p, CASE r = "found" -> Goto(ctl[p], "create_scanOne")
                    [] r = "none" -> Raise(ctl[p], "NoProject")
                    [] r = "fail" -> Raise(ctl[p], "RemoteError"))
  /\ UNCHANGED <<db, challenges, detached, delivered, nextId, repo, event,
                 issue, local>>

\* line 519: if (dbIssue) throw .. the issue is already created
IsDuplicateNever(dbIssue) == FALSE
IsDuplicate(dbIssue) == Truthy(dbIssue)

\* line 513: await dbHelper.scanOne(models.Issue, key); the duplicate check
create_scanOne(p) ==
  /\ ctl[p].pc = "create_scanOne"
  /\ \E ok \in BOOLEAN, dbIssue \in ScanResults(db, issue[p]) :
       /\ Log(p, <<Call1("scanOne", "Issue", Res(ok))>>)
       /\ Jump(p, IF ~ok THEN Raise(ctl[p], "RemoteError")
                  ELSE IF IsDuplicate(dbIssue)
                  THEN Raise(ctl[p], "Duplicate")
                  ELSE Goto(ctl[p], "create_create"))
  /\ UNCHANGED <<db, challenges, detached, delivered, nextId, repo, event,
                 issue, local>>

\* lines 525-528: _.assign({}, issue, {id, status})
IssueObjectUnmarked(i, id) ==
  [id |-> id, number |-> i.number, provider |-> i.provider,
   repositoryId |-> i.repositoryId, title |-> i.title, body |-> i.body,
   prizes |-> i.prizes, labels |-> i.labels, assignee |-> i.assignee,
   assignedAt |-> NULL, challengeId |-> i.challengeId,
   status |-> "undefined"]
IssueObject(i, id) ==
  [id |-> id, number |-> i.number, provider |-> i.provider,
   repositoryId |-> i.repositoryId, title |-> i.title, body |-> i.body,
   prizes |-> i.prizes, labels |-> i.labels, assignee |-> i.assignee,
   assignedAt |-> NULL, challengeId |-> i.challengeId,
   status |-> "challenge_creation_pending"]

\* line 529: await dbHelper.create(models.Issue, issueObject)
create_create(p) ==
  /\ ctl[p].pc = "create_create"
  /\ \E ok \in BOOLEAN :
       /\ Log(p, <<Call1("create", "Issue", Res(ok))>>)
       /\ IF ok
          THEN /\ nextId' = nextId + 1
               /\ db' = db \cup {IssueObject(issue[p], nextId + 1)}
               /\ Set(p, [created |-> IssueObject(issue[p], nextId + 1)])
               /\ Jump(p, Goto(ctl[p], "create_createChallenge"))
          ELSE /\ Jump(p, Raise(ctl[p], "RemoteError"))
               /\ UNCHANGED <<db, nextId, local>>
  /\ UNCHANGED <<challenges, detached, delivered, repo, event, issue>>

\* line 535: issue.challengeId = await topcoderApiHelper.createChallenge(..)
create_createChallenge(p) ==
  /\ ctl[p].pc = "create_createChallenge"
  /\ \E ok \in BOOLEAN :
       /\ Log(p, <<Call1("createChallenge", "", Res(ok))>>)
       /\ IF ok
          THEN /\ challenges' = Append(challenges, NewChallenge(issue[p]))
               /\ issue' = [issue EXCEPT ![p].challengeId = Len(challenges) + 1]
               /\ Jump(p, Goto(ctl[p], "create_update"))
          ELSE /\ Jump(p, Catch(ctl[p], "create_remove", "RemoteError"))
               /\ UNCHANGED <<challenges, issue>>
  /\ UNCHANGED <<db, detached, delivered, nextId, repo, event, local>>

\* lines 545-549: the fields written once the challenge is created
CreationSavedAsPending(challengeId) ==
  [challengeId |-> challengeId, status |-> "challenge_creation_pending"]
CreationSaved(challengeId) ==
  [challengeId |-> challengeId, status |-> "challenge_creation_successful"]

\* line 545: await dbHelper.update(models.Issue, dbIssue.id, {challengeId,
\* status: 'challenge_creation_successful'})
create_update(p) ==
  /\ ctl[p].pc = "create_update"
  /\ \E ok \in {b \in BOOLEAN : b => HasId(db, local[p].created.id)} :
       /\ Log(p, <<Call1("update", "status", Res(ok))>>)
       /\ IF ok
          THEN /\ db' = Updated(db, local[p].created.id,
                                CreationSaved(issue[p].challengeId))
               /\ Jump(p, Goto(ctl[p], "create_createComment"))
          ELSE /\ Jump(p, Catch(ctl[p], "create_remove", "RemoteError"))
               /\ UNCHANGED db
  /\ UNCHANGED <<challenges, detached, delivered, nextId, repo, event, issue,
                 local>>

\* dbHelper.remove(models.Issue, key): one record of the key is deleted
RemoveResults(store, i) ==
  IF Matching(store, i) = {} THEN {store}
  ELSE {store \ {r} : r \in Matching(store, i)}

\* lines 551-557, the catch block: await dbHelper.remove(models.Issue, key);
\* await eventService.handleEventGracefully(event, issue, e); return
create_remove(p) ==
  /\ ctl[p].pc = "create_remove"
  /\ \E ok \in BOOLEAN, after \in RemoveResults(db, issue[p]) :
       IF ok
       THEN /\ db' = after
            /\ Log(p, <<Call1("remove", "Issue", "ok"),
                        Call1("handleEventGracefully", ctl[p].err, "ok")>>)
            /\ Jump(p, Return(ctl[p]))
       ELSE /\ Log(p, <<Call1("remove", "Issue", "fail")>>)
            /\ Jump(p, Raise(ctl[p], "RemoteError"))
            /\ UNCHANGED db
  /\ UNCHANGED <<challenges, detached, delivered, nextId, repo, event, issue,
                 local>>

\* lines 567-569: the provider is gitlab and the payload has an assignee
AssignsOnCreateAnyProvider(e) == e.assignees # <<>>
AssignsOnCreate(e) == e.provider = "gitlab" /\ e.assignees # <<>>

\* lines 560-575: await createComment(.. 'Contest .. has been created ..'),
\* then, for gitlab, the assignment of an assignee added with the issue
create_createComment(p) ==
  /\ ctl[p].pc = "create_createComment"
  /\ \E ok \in BOOLEAN :
       /\ Log(p, <<Call1("createComment", "created", Res(ok))>>)
       /\ IF ~ok
          THEN /\ Jump(p, Raise(ctl[p], "RemoteError"))
               /\ UNCHANGED event
          ELSE IF AssignsOnCreate(event[p])
          THEN /\ event' = [event EXCEPT ![p].assignee = event[p].assignees[1]]
               /\ Jump(p, Call(ctl[p], "assign_getTCUserName",
                                "create_assigned", ""))
          ELSE /\ Jump(p, Return(ctl[p]))
               /\ UNCHANGED event
  /\ UNCHANGED <<db, challenges, detached, delivered, nextId, repo, issue,
                 local>>

\* lines 573-578: handleIssueAssignment has returned
create_assigned(p) ==
  /\ ctl[p].pc = "create_assigned"
  /\ Jump(p, Return(ctl[p]))
  /\ UNCHANGED <<db, challenges, detached, delivered, nextId, repo, event,
                 issue, local, trace>>

(* ------------------------ ensureChallengeExists ----------------------- *)
\* line 66: let dbIssue = dbHelper.scanOne(models.Issue, key), with no
\* await: the variable holds the promise of the scan, not its record
FirstScan == Promise

\* lines 65-94.  The function has one await of its own when `dbIssue` is a
\* promise: returning it makes the call settle as the scan settles.
ensureChallengeExists(p) ==
  /\ ctl[p].pc \in {"ensure", "ensure_remove", "ensure_created",
                    "ensure_scanOne"}
  /\ CASE ctl[p].pc = "ensure" ->
            LET dbIssue == FirstScan IN
            IF Truthy(dbIssue)
               /\ StatusOf(dbIssue) = "challenge_creation_pending"
            THEN \* line 73: throw errors.internalDependencyError(..)
                 /\ Jump(p, Raise(ctl[p], "InternalDependency"))
                 /\ UNCHANGED <<db, local, trace>>
            ELSE IF Truthy(dbIssue)
                    /\ StatusOf(dbIssue) = "challenge_creation_failed"
            THEN \* line 77: await dbHelper.remove(models.Issue, key)
                 /\ Jump(p, Goto(ctl[p], "ensure_remove"))
                 /\ UNCHANGED <<db, local, trace>>
            ELSE IF ~Truthy(dbIssue)
            THEN \* line 86: await handleIssueCreate(event, issue)
                 /\ Jump(p, Call(ctl[p], "create_getProjectDetail",
                                  "ensure_created", ""))
                 /\ UNCHANGED <<db, local, trace>>
            ELSE \* line 93: return dbIssue
                 \E ok \in BOOLEAN, found \in ScanResults(db, issue[p]) :
                   /\ Log(p, <<Call1("scanOne", "Issue", Res(ok))>>)
                   /\ IF ok
                      THEN /\ Set(p, [dbIssue |-> found])
                           /\ Jump(p, Return(ctl[p]))
                      ELSE /\ Jump(p, Raise(ctl[p], "RemoteError"))
                           /\ UNCHANGED local
                   /\ UNCHANGED db
       [] ctl[p].pc = "ensure_remove" ->
            \* lines 77-82 and 85-86
            \E ok \in BOOLEAN, after \in RemoveResults(db, issue[p]) :
              /\ Log(p, <<Call1("remove", "Issue", Res(ok))>>)
              /\ IF ok
                 THEN /\ db' = after
                      /\ Jump(p, Call(ctl[p], "create_getProjectDetail",
                                       "ensure_created", ""))
                 ELSE /\ Jump(p, Raise(ctl[p], "RemoteError"))
                      /\ UNCHANGED db
              /\ UNCHANGED local
       [] ctl[p].pc = "ensure_created" ->
            \* line 87: await dbHelper.scanOne(models.Issue, key)
            /\ Jump(p, Goto(ctl[p], "ensure_scanOne"))
            /\ UNCHANGED <<db, local, trace>>
       [] ctl[p].pc = "ensure_scanOne" ->
            \* lines 87-93
            \E ok \in BOOLEAN, found \in ScanResults(db, issue[p]) :
              /\ Log(p, <<Call1("scanOne", "Issue", Res(ok))>>)
              /\ IF ok
                 THEN /\ Set(p, [dbIssue |-> found])
                      /\ Jump(p, Return(ctl[p]))
                 ELSE /\ Jump(p, Raise(ctl[p], "RemoteError"))
                      /\ UNCHANGED local
              /\ UNCHANGED db
  /\ UNCHANGED <<challenges, detached, delivered, nextId, repo, event, issue>>

(* --------------------------- rollbackAssignee ------------------------- *)
\* rollbackAssignee(event, assigneeUserId, issue, reOpen, comment), entered
\* up to its first await
Rollback(c, ret, catch) == Call(c, "rollback_getUsernameById", ret, catch)

\* lines 129-133: await getUsernameById(event.copilot, assigneeUserId)
rollback_getUsernameById(p) ==
  /\ ctl[p].pc = "rollback_getUsernameById"
  /\ \E ok \in BOOLEAN :
       /\ Log(p, <<Call1("getUsernameById", local[p].rollbackUser, Res(ok))>>)
       /\ Jump(p, IF ok THEN Goto(ctl[p], "rollback_createComment")
                  ELSE Raise(ctl[p], "RemoteError"))
  /\ UNCHANGED <<db, challenges, detached, delivered, nextId, repo, event,
                 issue, local>>

\* lines 135-145: await createComment(.., comment)
rollback_createComment(p) ==
  /\ ctl[p].pc = "rollback_createComment"
  /\ \E ok \in BOOLEAN :
       /\ Log(p, <<Call1("createComment", local[p].comment, Res(ok))>>)
       /\ Jump(p, IF ok THEN Goto(ctl[p], "rollback_removeAssign")
                  ELSE Raise(ctl[p], "RemoteError"))
  /\ UNCHANGED <<db, challenges, detached, delivered, nextId, repo, event,
                 issue, local>>

\* lines 143-151: await removeAssign(..); if (reOpen) ..
rollback_removeAssign(p) ==
  /\ ctl[p].pc = "rollback_removeAssign"
  /\ \E ok \in BOOLEAN :
       /\ Log(p, <<Call1("removeAssign", local[p].rollbackUser, Res(ok))>>)
       /\ Jump(p, IF ~ok THEN Raise(ctl[p], "RemoteError")
                  ELSE IF local[p].reOpen
                       THEN Goto(ctl[p], "rollback_reOpenIssue")
                       ELSE Return(ctl[p]))
  /\ UNCHANGED <<db, challenges, detached, delivered, nextId, repo, event,
                 issue, local>>

\* line 150: await eventService.reOpenIssue(event, issue)
rollback_reOpenIssue(p) ==
  /\ ctl[p].pc = "rollback_reOpenIssue"
  /\ \E ok \in BOOLEAN :
       /\ Log(p, <<Call1("reOpenIssue", "", Res(ok))>>)
       /\ Jump(p, IF ok THEN Return(ctl[p]) ELSE Raise(ctl[p], "RemoteError"))
  /\ UNCHANGED <<db, challenges, detached, delivered, nextId, repo, event,
                 issue, local>>

(* ------------------------ handleIssueAssignment ----------------------- *)
\* line 127: the default of the parameter reOpen, taken by the call of
\* line 279, which passes three arguments
ReOpenDefaultOn == TRUE
ReOpenDefault == FALSE

\* lines 199-205 and 278-279: await userService.getTCUserName(provider, id)
assign_getTCUserName(p) ==
  /\ ctl[p].pc = "assign_getTCUserName"
  /\ \E ok \in BOOLEAN :
       LET assigneeUserId == event[p].assignee
           userMapping == getTCUserName(assigneeUserId)
       IN /\ Log(p, <<Call1("getTCUserName", assigneeUserId, Res(ok))>>)
          /\ IF ~ok
             THEN /\ Jump(p, Raise(ctl[p], "RemoteError"))
                  /\ UNCHANGED local
             ELSE IF Truthy(userMapping)
             THEN /\ Set(p, [userMapping |-> userMapping])
                  /\ Jump(p, Call(ctl[p], "ensure", "assign_ensured",
                                   "assign_catch"))
             ELSE /\ Set(p, [userMapping |-> userMapping,
                             rollbackUser |-> assigneeUserId,
                             reOpen |-> ReOpenDefault,
                             comment |-> "sign-up"])
                  /\ Jump(p, Rollback(ctl[p], "assign_rolledBack", ""))
  /\ UNCHANGED <<db, challenges, detached, delivered, nextId, repo, event,
                 issue>>

\* lines 205-244: dbIssue = await ensureChallengeExists(..) has returned
assign_ensured(p) ==
  /\ ctl[p].pc = "assign_ensured"
  /\ LET hasOpenForPickupLabel ==
           Includes(issue[p].labels, OPEN_FOR_PICKUP_ISSUE_LABEL)
         \* line 212: _(issue.labels).push(label) pushes onto the array of
         \* the issue, which is the array of the event
         issueLabels == Append(issue[p].labels, NOT_READY_ISSUE_LABEL)
     IN IF hasOpenForPickupLabel
        THEN /\ Jump(p, Goto(ctl[p], "assign_getTopcoderMemberId"))
             /\ UNCHANGED <<event, issue, local>>
        ELSE IF issue[p].assignee = NULL
        THEN /\ issue' = [issue EXCEPT ![p].labels = issueLabels]
             /\ event' = [event EXCEPT ![p].labels = issueLabels]
             /\ Set(p, [comment |-> "not ready"])
             /\ Jump(p, Goto(ctl[p], "assign_addLabels_notReady"))
        ELSE /\ Jump(p, Goto(ctl[p], "assign_addLabels_remain"))
             /\ UNCHANGED <<event, issue, local>>
  /\ UNCHANGED <<db, challenges, detached, delivered, nextId, repo, trace>>

\* lines 216-222: await addLabels(.., issueLabels); rollbackAssignee(..)
assign_addLabels_notReady(p) ==
  /\ ctl[p].pc = "assign_addLabels_notReady"
  /\ \E ok \in BOOLEAN :
       /\ Log(p, <<Call1("addLabels", "not ready", Res(ok))>>)
       /\ IF ok
          THEN /\ Set(p, [rollbackUser |-> event[p].assignee,
                          reOpen |-> FALSE])
               /\ Jump(p, Rollback(ctl[p], "assign_rolledBack", "assign_catch"))
          ELSE /\ Jump(p, Catch(ctl[p], "assign_catch", "RemoteError"))
               /\ UNCHANGED local
  /\ UNCHANGED <<db, challenges, detached, delivered, nextId, repo, event,
                 issue>>

\* lines 225-238: await addLabels(.., issue.labels); rollbackAssignee(..)
assign_addLabels_remain(p) ==
  /\ ctl[p].pc = "assign_addLabels_remain"
  /\ \E ok \in BOOLEAN :
       LET hasNotReadyLabel == Includes(issue[p].labels, NOT_READY_ISSUE_LABEL)
       IN /\ Log(p, <<Call1("addLabels", "remain", Res(ok))>>)
          /\ IF ~ok
             THEN /\ Jump(p, Catch(ctl[p], "assign_catch", "RemoteError"))
                  /\ UNCHANGED local
             ELSE IF ~hasNotReadyLabel /\ ~Truthy(local[p].dbIssue)
             THEN \* line 232: dbIssue.challengeId of no record
                  /\ Jump(p, Catch(ctl[p], "assign_catch", "TypeError"))
                  /\ UNCHANGED local
             ELSE /\ Set(p, [rollbackUser |-> event[p].assignee,
                             reOpen |-> FALSE,
                             comment |-> IF hasNotReadyLabel THEN "not ready"
                                         ELSE "unassigned"])
                  /\ Jump(p, Rollback(ctl[p], "assign_rolledBack",
                                       "assign_catch"))
  /\ UNCHANGED <<db, challenges, detached, delivered, nextId, repo, event,
                 issue>>

\* lines 222-240 and 279-280: rollbackAssignee has returned
assign_rolledBack(p) ==
  /\ ctl[p].pc = "assign_rolledBack"
  /\ Jump(p, Return(ctl[p]))
  /\ UNCHANGED <<db, challenges, detached, delivered, nextId, repo, event,
                 issue, local, trace>>

\* a call of the challenge platform started and not awaited
Detach(op, challengeId, roleId, userId) ==
  [op |-> op, challengeId |-> challengeId, roleId |-> roleId,
   userId |-> userId]

\* lines 244-252: await getTopcoderMemberId(..); assignUserAsRegistrant(..)
\* is called without await; dbHelper.update(..) is awaited next
assign_getTopcoderMemberId(p) ==
  /\ ctl[p].pc = "assign_getTopcoderMemberId"
  /\ \E ok \in BOOLEAN :
       LET topcoderUserId ==
             getTopcoderMemberId(local[p].userMapping.topcoderUsername)
       IN IF ~ok
          THEN /\ Log(p, <<Call1("getTopcoderMemberId", "", "fail")>>)
               /\ Jump(p, Catch(ctl[p], "assign_catch", "RemoteError"))
               /\ UNCHANGED detached
          ELSE IF ~Truthy(local[p].dbIssue)
          THEN \* line 247: dbIssue.challengeId of no record
               /\ Log(p, <<Call1("getTopcoderMemberId", "", "ok")>>)
               /\ Jump(p, Catch(ctl[p], "assign_catch", "TypeError"))
               /\ UNCHANGED detached
          ELSE /\ Log(p, <<Call1("getTopcoderMemberId", "", "ok"),
                           Call1("assignUserAsRegistrant", topcoderUserId,
                                 "not awaited")>>)
               /\ detached' = detached \cup
                    {Detach("addResourceToChallenge",
                            local[p].dbIssue.challengeId, REGISTRANT_ROLE,
                            topcoderUserId)}
               /\ Jump(p, Goto(ctl[p], "assign_update"))
  /\ UNCHANGED <<db, challenges, delivered, nextId, repo, event, issue, local>>

\* lines 248-264: dbIssue = await dbHelper.update(.., {assignee, assignedAt})
assign_update(p) ==
  /\ ctl[p].pc = "assign_update"
  /\ \E ok \in {b \in BOOLEAN : b => HasId(db, local[p].dbIssue.id)} :
       /\ Log(p, <<Call1("update", "assignee", Res(ok))>>)
       /\ IF ok
          THEN LET patch == [assignee |-> issue[p].assignee,
                             assignedAt |-> "date"]
               IN /\ db' = Updated(db, local[p].dbIssue.id, patch)
                  /\ Set(p, [dbIssue |->
                               Assign(ById(db, local[p].dbIssue.id), patch)])
                  /\ Jump(p, Goto(ctl[p], "assign_addLabels"))
          ELSE /\ Jump(p, Catch(ctl[p], "assign_catch", "RemoteError"))
               /\ UNCHANGED <<db, local>>
  /\ UNCHANGED <<challenges, detached, delivered, nextId, repo, event, issue>>

\* lines 254-264: await addLabels(.., updateLabels)
assign_addLabels(p) ==
  /\ ctl[p].pc = "assign_addLabels"
  /\ \E ok \in BOOLEAN :
       /\ Log(p, <<Call1("addLabels", "assigned", Res(ok))>>)
       /\ Jump(p, IF ok THEN Goto(ctl[p], "assign_createComment")
                  ELSE Catch(ctl[p], "assign_catch", "RemoteError"))
  /\ UNCHANGED <<db, challenges, detached, delivered, nextId, repo, event,
                 issue, local>>

\* lines 265-268: eventService.handleEventGracefully(event, issue, err)
assign_catch(p) ==
  /\ ctl[p].pc = "assign_catch"
  /\ Log(p, <<Call1("handleEventGracefully", ctl[p].err, "ok")>>)
  /\ Jump(p, Return(ctl[p]))
  /\ UNCHANGED <<db, challenges, detached, delivered, nextId, repo, event,
                 issue, local>>

\* lines 269-277: await createComment(.. 'it has been assigned to ..')
assign_createComment(p) ==
  /\ ctl[p].pc = "assign_createComment"
  /\ \E ok \in BOOLEAN :
       /\ Log(p, <<Call1("createComment", "assigned", Res(ok))>>)
       /\ Jump(p, IF ok THEN Return(ctl[p]) ELSE Raise(ctl[p], "RemoteError"))
  /\ UNCHANGED <<db, challenges, detached, delivered, nextId, repo, event,
                 issue, local>>

(* ----------------------- handleIssueUnAssignment ---------------------- *)
\* lines 609-618: dbIssue = await ensureChallengeExists(..) has returned
unassign_ensured(p) ==
  /\ ctl[p].pc = "unassign_ensured"
  /\ IF ~Truthy(local[p].dbIssue)
     THEN \* line 610: dbIssue.assignee of no record
          /\ Jump(p, Catch(ctl[p], "unassign_catch", "TypeError"))
          /\ UNCHANGED <<local, trace>>
     ELSE IF local[p].dbIssue.assignee = NULL
     THEN /\ Jump(p, Goto(ctl[p], "unassign_update"))
          /\ UNCHANGED <<local, trace>>
     ELSE IF event[p].provider = "github"
     THEN \* line 613: gitHubService.getUserIdByLogin(..) is not awaited:
          \* assigneeUserId is its promise
          /\ Log(p, <<Call1("getUserIdByLogin", local[p].dbIssue.assignee,
                            "not awaited")>>)
          /\ Set(p, [assigneeUserId |-> "[object Promise]"])
          /\ Jump(p, Goto(ctl[p], "unassign_getTCUserName"))
     ELSE /\ Jump(p, Goto(ctl[p], "unassign_getUserIdByLogin"))
          /\ UNCHANGED <<local, trace>>
  /\ UNCHANGED <<db, challenges, detached, delivered, nextId, repo, event,
                 issue>>

\* line 615: await gitlabService.getUserIdByLogin(copilot, dbIssue.assignee)
unassign_getUserIdByLogin(p) ==
  /\ ctl[p].pc = "unassign_getUserIdByLogin"
  /\ \E ok \in BOOLEAN :
       /\ Log(p, <<Call1("getUserIdByLogin", local[p].dbIssue.assignee,
                         Res(ok))>>)
       /\ IF ok
          THEN /\ Set(p, [assigneeUserId |->
                            getUserIdByLogin(local[p].dbIssue.assignee)])
               /\ Jump(p, Goto(ctl[p], "unassign_getTCUserName"))
          ELSE /\ Jump(p, Catch(ctl[p], "unassign_catch", "RemoteError"))
               /\ UNCHANGED local
  /\ UNCHANGED <<db, challenges, detached, delivered, nextId, repo, event,
                 issue>>

\* lines 618-626: await userService.getTCUserName(provider, assigneeUserId);
\* no tracker user is found for a value that is not a user id
unassign_getTCUserName(p) ==
  /\ ctl[p].pc = "unassign_getTCUserName"
  /\ \E ok \in BOOLEAN :
       LET userMapping == IF local[p].assigneeUserId \in Users
                          THEN getTCUserName(local[p].assigneeUserId)
                          ELSE Null
       IN /\ Log(p, <<Call1("getTCUserName", local[p].assigneeUserId, Res(ok))>>)
          /\ IF ~ok
             THEN /\ Jump(p, Catch(ctl[p], "unassign_catch", "RemoteError"))
                  /\ UNCHANGED local
             ELSE /\ Set(p, [userMapping |-> userMapping])
                  /\ Jump(p, IF Truthy(userMapping)
                             THEN Goto(ctl[p], "unassign_getTopcoderMemberId")
                             ELSE Goto(ctl[p], "unassign_update"))
  /\ UNCHANGED <<db, challenges, detached, delivered, nextId, repo, event,
                 issue>>

\* lines 626-636: await getTopcoderMemberId(..); removeResourceToChallenge
\* is called without await; createComment is awaited next
unassign_getTopcoderMemberId(p) ==
  /\ ctl[p].pc = "unassign_getTopcoderMemberId"
  /\ \E ok \in BOOLEAN :
       LET topcoderUserId ==
             getTopcoderMemberId(local[p].userMapping.topcoderUsername)
       IN IF ok
          THEN /\ Log(p, <<Call1("getTopcoderMemberId", "", "ok"),
                           Call1("removeResourceToChallenge", topcoderUserId,
                                 "not awaited")>>)
               /\ detached' = detached \cup
                    {Detach("removeResourceToChallenge",
                            local[p].dbIssue.challengeId, REGISTRANT_ROLE,
                            topcoderUserId)}
               /\ Jump(p, Goto(ctl[p], "unassign_createComment"))
          ELSE /\ Log(p, <<Call1("getTopcoderMemberId", "", "fail")>>)
               /\ Jump(p, Catch(ctl[p], "unassign_catch", "RemoteError"))
               /\ UNCHANGED detached
  /\ UNCHANGED <<db, challenges, delivered, nextId, repo, event, issue, local>>

\* lines 633-639: await createComment(.. 'has been unassigned.')
unassign_createComment(p) ==
  /\ ctl[p].pc = "unassign_createComment"
  /\ \E ok \in BOOLEAN :
       /\ Log(p, <<Call1("createComment", "unassigned", Res(ok))>>)
       /\ Jump(p, IF ok THEN Goto(ctl[p], "unassign_addLabels")
                  ELSE Catch(ctl[p], "unassign_catch", "RemoteError"))
  /\ UNCHANGED <<db, challenges, detached, delivered, nextId, repo, event,
                 issue, local>>

\* lines 637-644: await addLabels(.., updateLabels)
unassign_addLabels(p) ==
  /\ ctl[p].pc = "unassign_addLabels"
  /\ \E ok \in BOOLEAN :
       /\ Log(p, <<Call1("addLabels", "open for pickup", Res(ok))>>)
       /\ Jump(p, IF ok THEN Goto(ctl[p], "unassign_update")
                  ELSE Catch(ctl[p], "unassign_catch", "RemoteError"))
  /\ UNCHANGED <<db, challenges, detached, delivered, nextId, repo, event,
                 issue, local>>

\* line 647: the return of the catch block, which leaves the handler
\* before the update of lines 649-653
CaughtFallsThrough(c) == Goto(c, "unassign_update")
Caught(c) == Return(c)

\* lines 645-648: await handleEventGracefully(event, issue, e); return
unassign_catch(p) ==
  /\ ctl[p].pc = "unassign_catch"
  /\ Log(p, <<Call1("handleEventGracefully", ctl[p].err, "ok")>>)
  /\ Jump(p, Caught(ctl[p]))
  /\ UNCHANGED <<db, challenges, detached, delivered, nextId, repo, event,
                 issue, local>>

\* lines 650-651: the fields the unassignment writes
UnassignedKeepsAssignee == [assignedAt |-> NULL]
Unassigned == [assignee |-> NULL, assignedAt |-> NULL]

\* lines 649-653: await dbHelper.update(.., {assignee: null, assignedAt: null})
unassign_update(p) ==
  /\ ctl[p].pc = "unassign_update"
  /\ \E ok \in {b \in BOOLEAN :
                  b => Truthy(local[p].dbIssue) /\ HasId(db, local[p].dbIssue.id)} :
       IF ~Truthy(local[p].dbIssue)
       THEN \* line 649: dbIssue.id of no record
            /\ Jump(p, Raise(ctl[p], "TypeError"))
            /\ UNCHANGED <<db, trace>>
       ELSE /\ Log(p, <<Call1("update", "assignee", Res(ok))>>)
            /\ IF ok
               THEN /\ db' = Updated(db, local[p].dbIssue.id, Unassigned)
                    /\ Jump(p, Return(ctl[p]))
               ELSE /\ Jump(p, Raise(ctl[p], "RemoteError"))
                    /\ UNCHANGED db
  /\ UNCHANGED <<challenges, detached, delivered, nextId, repo, event, issue,
                 local>>

(* -------------------------- challenge platform ------------------------ *)
Exists(c) == c \in 1..Len(challenges)
\* the answer of the platform to challengesIdResourcesPost: a resource the
\* challenge already has is refused with 'User .. with role .. already exists'
ResourcesPostReplies(chs, c, roleId, userId) ==
  IF c \notin 1..Len(chs) THEN {"fail"}
  ELSE IF <<roleId, userId>> \in chs[c].resources
  THEN {"already exists", "fail"}
  ELSE {"ok", "fail"}
\* lines 344-355 of the helper: the promise resolves on success and on the
\* 'already exists' error, and rejects on any other error
AddResourceResolvesAlways(reply) == TRUE
AddResourceResolvesOnlyAdded(reply) == reply = "ok"
AddResourceResolves(reply) == reply \in {"ok", "already exists"}
\* the challenge after the platform answered the post with `reply`
ResourcePosted(chs, c, roleId, userId, reply) ==
  IF reply = "ok"
  THEN [chs EXCEPT ![c].resources = @ \cup {<<roleId, userId>>}]
  ELSE chs
ResourceRemoved(chs, c, roleId, userId) ==
  [chs EXCEPT ![c].resources = @ \ {<<roleId, userId>>}]

\* a call started without await, or the timer of line 459, runs
detached_run(d) ==
  /\ d \in detached
  /\ detached' = detached \ {d}
  /\ IF d.op = "addResourceToChallenge"
     THEN \E reply \in ResourcesPostReplies(challenges, d.challengeId,
                                            d.roleId, d.userId) :
            challenges' = ResourcePosted(challenges, d.challengeId, d.roleId,
                                         d.userId, reply)
     ELSE \E ok \in {b \in BOOLEAN : b => Exists(d.challengeId)} :
            challenges' =
              IF ~ok THEN challenges
              ELSE IF d.op = "removeResourceToChallenge"
              THEN ResourceRemoved(challenges, d.challengeId, d.roleId,
                                   d.userId)
              ELSE \* cancelPrivateContent
                   [challenges EXCEPT ![d.challengeId].status = "cancelled"]
  /\ UNCHANGED <<db, delivered, nextId, repo, ctl, event, issue, local, trace>>

(* --------------------------- handleIssueClose ------------------------- *)
\* line 393: if (issue.prizes[0] === 0)
ZeroPrizeIgnored(prizes) == FALSE
ZeroPrize(prizes) == prizes[1] = 0

\* line 399: if (!event.data.assignee.id)
NoAssigneeIgnored(e) == FALSE
NoAssignee(e) == e.assignee = NULL
\* line 405: _.includes(event.data.issue.labels, PAID_ISSUE_LABEL)
PaidLabelIgnored(labels) == FALSE
HasPaidLabel(labels) == Includes(labels, PAID_ISSUE_LABEL)

\* lines 393-411, from the prize check to await getTCUserName(..)
CloseChecks(p, closeChallenge) ==
  /\ Set(p, [closeChallenge |-> closeChallenge \/ ZeroPrize(issue[p].prizes)])
  /\ Jump(p, IF NoAssignee(event[p])
             THEN Return(ctl[p])
             ELSE IF HasPaidLabel(event[p].labels)
             THEN Return(ctl[p])
             ELSE Goto(ctl[p], "close_getTCUserName"))

\* lines 476-483: the labels of the paid issue, await dbHelper.update(..)
PaidLabelsUnfiltered(labels) == Append(labels, ASSIGNED_ISSUE_LABEL)
PaidLabels(labels) ==
  Append(Without(Without(labels, OPEN_FOR_PICKUP_ISSUE_LABEL),
                 ASSIGNED_ISSUE_LABEL),
         ASSIGNED_ISSUE_LABEL)

\* line 379: if (!event.paymentSuccessful) guards the payment block
PaymentSkippedAlways(paymentSuccessful) == FALSE
PaymentSkipped(paymentSuccessful) == paymentSuccessful

\* line 382: _.includes(event.data.issue.labels, FIX_ACCEPTED_ISSUE_LABEL)
FixAcceptedAssumed(labels) == TRUE
FixAccepted(labels) == Includes(labels, FIX_ACCEPTED_ISSUE_LABEL)

\* lines 378-392 and 474-480: dbIssue = await ensureChallengeExists(..) has
\* returned
close_ensured(p) ==
  /\ ctl[p].pc = "close_ensured"
  /\ IF ~PaymentSkipped(event[p].paymentSuccessful)
     THEN IF ~FixAccepted(event[p].labels)
          THEN /\ Jump(p, Goto(ctl[p], "close_createComment"))
               /\ UNCHANGED local
          ELSE CloseChecks(p, FALSE)
     ELSE /\ Jump(p, IF Truthy(local[p].dbIssue)
                     THEN Goto(ctl[p], "close_update")
                     ELSE Catch(ctl[p], "close_catch2", "TypeError"))
          /\ UNCHANGED local
  /\ UNCHANGED <<db, challenges, detached, delivered, nextId, repo, event,
                 issue, trace>>

\* lines 386-391: await createComment(.. 'was not processed for payment ..')
close_createComment(p) ==
  /\ ctl[p].pc = "close_createComment"
  /\ \E ok \in BOOLEAN :
       /\ Log(p, <<Call1("createComment", "not processed", Res(ok))>>)
       /\ IF ok
          THEN CloseChecks(p, TRUE)
          ELSE /\ Jump(p, Catch(ctl[p], "close_catch", "RemoteError"))
               /\ UNCHANGED local
  /\ UNCHANGED <<db, challenges, detached, delivered, nextId, repo, event,
                 issue>>

\* lines 411-420: await userService.getTCUserName(provider, assignee.id)
close_getTCUserName(p) ==
  /\ ctl[p].pc = "close_getTCUserName"
  /\ \E ok \in BOOLEAN :
       LET assigneeMember == getTCUserName(event[p].assignee)
       IN /\ Log(p, <<Call1("getTCUserName", event[p].assignee, Res(ok))>>)
          /\ IF ~ok
             THEN /\ Jump(p, Catch(ctl[p], "close_catch", "RemoteError"))
                  /\ UNCHANGED local
             ELSE IF ~Truthy(assigneeMember)
             THEN /\ Set(p, [assigneeMember |-> assigneeMember,
                             rollbackUser |-> event[p].assignee,
                             reOpen |-> TRUE, comment |-> "sign-up"])
                  /\ Jump(p, Rollback(ctl[p], "close_rolledBack",
                                       "close_catch"))
             ELSE /\ Set(p, [assigneeMember |-> assigneeMember])
                  /\ Jump(p, Goto(ctl[p], "close_getProjectDetail"))
  /\ UNCHANGED <<db, challenges, detached, delivered, nextId, repo, event,
                 issue>>

\* lines 416-420: rollbackAssignee(.., true) has returned; the handler goes
\* on to await getProjectDetail(issue, event)
close_rolledBack(p) ==
  /\ ctl[p].pc = "close_rolledBack"
  /\ Jump(p, Goto(ctl[p], "close_getProjectDetail"))
  /\ UNCHANGED <<db, challenges, detached, delivered, nextId, repo, event,
                 issue, local, trace>>

\* lines 420-423: await getProjectDetail(issue, event); project.tcDirectId
close_getProjectDetail(p) ==
  /\ ctl[p].pc = "close_getProjectDetail"
  /\ \E r \in {"found", "none", "fail"} :
       /\ Log(p, <<Call1("scanOne", "Project", IF r = "fail" THEN "fail" ELSE "ok")>>)
       /\ Jump(p, CASE r = "found" ->
                         Goto(ctl[p], "close_getProjectBillingAccountId")
                    [] r = "none" -> Catch(ctl[p], "close_catch", "TypeError")
                    [] r = "fail" -> Catch(ctl[p], "close_catch", "RemoteError"))
  /\ UNCHANGED <<db, challenges, detached, delivered, nextId, repo, event,
                 issue, local>>

\* lines 423-433: await getProjectBillingAccountId(project.tcDirectId)
close_getProjectBillingAccountId(p) ==
  /\ ctl[p].pc = "close_getProjectBillingAccountId"
  /\ \E ok \in BOOLEAN :
       /\ Log(p, <<Call1("getProjectBillingAccountId", "", Res(ok))>>)
       /\ Jump(p, IF ~ok THEN Catch(ctl[p], "close_catch", "RemoteError")
                  ELSE IF ~Truthy(local[p].dbIssue)
                  THEN \* line 433: dbIssue.challengeId of no record
                       Catch(ctl[p], "close_catch", "TypeError")
                  ELSE Goto(ctl[p], "close_updateChallenge"))
  /\ UNCHANGED <<db, challenges, detached, delivered, nextId, repo, event,
                 issue, local>>

\* lines 433-436: await updateChallenge(dbIssue.challengeId, {billingAccountId,
\* prizes}); assigneeMember.topcoderUsername
close_updateChallenge(p) ==
  /\ ctl[p].pc = "close_updateChallenge"
  /\ \E ok \in {b \in BOOLEAN : b => Exists(local[p].dbIssue.challengeId)} :
       /\ Log(p, <<Call1("updateChallenge", "billingAccountId", Res(ok))>>)
       /\ Jump(p, IF ~ok THEN Catch(ctl[p], "close_catch", "RemoteError")
                  ELSE IF ~Truthy(local[p].assigneeMember)
                  THEN \* line 435: assigneeMember.topcoderUsername of null
                       Catch(ctl[p], "close_catch", "TypeError")
                  ELSE Goto(ctl[p], "close_getTopcoderMemberId_winner"))
  /\ UNCHANGED <<db, challenges, detached, delivered, nextId, repo, event,
                 issue, local>>

\* line 436: winnerId = await getTopcoderMemberId(assigneeMember.topcoderUsername)
close_getTopcoderMemberId_winner(p) ==
  /\ ctl[p].pc = "close_getTopcoderMemberId_winner"
  /\ \E ok \in BOOLEAN :
       /\ Log(p, <<Call1("getTopcoderMemberId", "winner", Res(ok))>>)
       /\ IF ok
          THEN /\ Set(p, [winnerId |-> getTopcoderMemberId(
                             local[p].assigneeMember.topcoderUsername)])
               /\ Jump(p, Goto(ctl[p], "close_getTopcoderMemberId_copilot"))
          ELSE /\ Jump(p, Catch(ctl[p], "close_catch", "RemoteError"))
               /\ UNCHANGED local
  /\ UNCHANGED <<db, challenges, detached, delivered, nextId, repo, event,
                 issue>>

\* line 440: await getTopcoderMemberId(event.copilot.topcoderUsername)
close_getTopcoderMemberId_copilot(p) ==
  /\ ctl[p].pc = "close_getTopcoderMemberId_copilot"
  /\ \E ok \in BOOLEAN :
       /\ Log(p, <<Call1("getTopcoderMemberId", "copilot", Res(ok))>>)
       /\ Jump(p, IF ok THEN Goto(ctl[p], "close_addResourceToChallenge")
                  ELSE Catch(ctl[p], "close_catch", "RemoteError"))
  /\ UNCHANGED <<db, challenges, detached, delivered, nextId, repo, event,
                 issue, local>>

\* lines 443-450: await addResourceToChallenge(challengeId, copilotResourceBody)
close_addResourceToChallenge(p) ==
  /\ ctl[p].pc = "close_addResourceToChallenge"
  /\ LET c == local[p].dbIssue.challengeId
         userId == getTopcoderMemberId(CopilotHandle)
     IN \E reply \in ResourcesPostReplies(challenges, c, COPILOT_ROLE, userId) :
          /\ Log(p, <<Call1("challengesIdResourcesPost", "copilot", reply),
                      Call1("addResourceToChallenge", "copilot",
                            Res(AddResourceResolves(reply)))>>)
          /\ challenges' = ResourcePosted(challenges, c, COPILOT_ROLE, userId,
                                          reply)
          /\ Jump(p, IF AddResourceResolves(reply)
                     THEN Goto(ctl[p], "close_assignUserAsRegistrant")
                     ELSE Catch(ctl[p], "close_catch", "RemoteError"))
  /\ UNCHANGED <<db, detached, delivered, nextId, repo, event, issue, local>>

\* line 453: await assignUserAsRegistrant(winnerId, dbIssue.challengeId)
close_assignUserAsRegistrant(p) ==
  /\ ctl[p].pc = "close_assignUserAsRegistrant"
  /\ LET c == local[p].dbIssue.challengeId
         userId == local[p].winnerId
     IN \E reply \in ResourcesPostReplies(challenges, c, REGISTRANT_ROLE,
                                          userId) :
          /\ Log(p, <<Call1("challengesIdResourcesPost", "registrant", reply),
                      Call1("assignUserAsRegistrant", userId,
                            Res(AddResourceResolves(reply)))>>)
          /\ challenges' = ResourcePosted(challenges, c, REGISTRANT_ROLE,
                                          userId, reply)
          /\ Jump(p, IF AddResourceResolves(reply)
                     THEN Goto(ctl[p], "close_activateChallenge")
                     ELSE Catch(ctl[p], "close_catch", "RemoteError"))
  /\ UNCHANGED <<db, detached, delivered, nextId, repo, event, issue, local>>

\* line 463: the return that follows setTimeout(..)
ScheduledFallsThrough(c) == Goto(c, "close_closeChallenge")
Scheduled(c) == Return(c)

\* lines 456-466: await activateChallenge(challengeId); if (closeChallenge)
\* the cancellation is left to a timer and the handler returns
close_activateChallenge(p) ==
  /\ ctl[p].pc = "close_activateChallenge"
  /\ \E ok \in {b \in BOOLEAN : b => Exists(local[p].dbIssue.challengeId)} :
       IF ~ok
       THEN /\ Log(p, <<Call1("activateChallenge", "", "fail")>>)
            /\ Jump(p, Catch(ctl[p], "close_catch", "RemoteError"))
            /\ UNCHANGED <<challenges, detached>>
       ELSE /\ challenges' =
                 [challenges EXCEPT ![local[p].dbIssue.challengeId].status =
                                      "active"]
            /\ IF local[p].closeChallenge
               THEN /\ Log(p, <<Call1("activateChallenge", "", "ok"),
                                Call1("setTimeout", "cancelPrivateContent",
                                      "not awaited")>>)
                    /\ detached' = detached \cup
                         {Detach("cancelPrivateContent",
                                 local[p].dbIssue.challengeId, 0, NULL)}
                    /\ Jump(p, Scheduled(ctl[p]))
               ELSE /\ Log(p, <<Call1("activateChallenge", "", "ok")>>)
                    /\ Jump(p, Goto(ctl[p], "close_closeChallenge"))
                    /\ UNCHANGED detached
  /\ UNCHANGED <<db, delivered, nextId, repo, event, issue, local>>

\* lines 466-467 and 474-480: await closeChallenge(challengeId, winnerId);
\* event.paymentSuccessful = true
close_closeChallenge(p) ==
  /\ ctl[p].pc = "close_closeChallenge"
  /\ \E ok \in {b \in BOOLEAN : b => Exists(local[p].dbIssue.challengeId)} :
       /\ Log(p, <<Call1("closeChallenge", local[p].winnerId, Res(ok))>>)
       /\ IF ok
          THEN /\ challenges' =
                    [challenges EXCEPT ![local[p].dbIssue.challengeId] =
                       [@ EXCEPT !.status = "closed", !.closed = @ + 1]]
               /\ event' = [event EXCEPT ![p].paymentSuccessful = TRUE]
               /\ Jump(p, Goto(ctl[p], "close_update"))
          ELSE /\ Jump(p, Catch(ctl[p], "close_catch", "RemoteError"))
               /\ UNCHANGED <<challenges, event>>
  /\ UNCHANGED <<db, detached, delivered, nextId, repo, issue, local>>

\* line 470: event.paymentSuccessful = event.paymentSuccessful === true
KeptPaymentDropped(paymentSuccessful) == FALSE
KeptPayment(paymentSuccessful) == paymentSuccessful = TRUE

\* lines 469-473: the catch block of the first try
close_catch(p) ==
  /\ ctl[p].pc = "close_catch"
  /\ event' = [event EXCEPT ![p].paymentSuccessful = KeptPayment(@)]
  /\ Log(p, <<Call1("handleEventGracefully", ctl[p].err, "ok")>>)
  /\ Jump(p, Return(ctl[p]))
  /\ UNCHANGED <<db, challenges, detached, delivered, nextId, repo, issue,
                 local>>

\* lines 476-485: dbIssue = await dbHelper.update(.., {labels})
close_update(p) ==
  /\ ctl[p].pc = "close_update"
  /\ \E ok \in {b \in BOOLEAN : b => HasId(db, local[p].dbIssue.id)} :
       /\ Log(p, <<Call1("update", "labels", Res(ok))>>)
       /\ IF ok
          THEN LET patch == [labels |-> PaidLabels(local[p].dbIssue.labels)]
               IN /\ db' = Updated(db, local[p].dbIssue.id, patch)
                  /\ Set(p, [dbIssue |->
                               Assign(ById(db, local[p].dbIssue.id), patch)])
                  /\ Jump(p, Goto(ctl[p], "close_markIssueAsPaid"))
          ELSE /\ Jump(p, Catch(ctl[p], "close_catch2", "RemoteError"))
               /\ UNCHANGED <<db, local>>
  /\ UNCHANGED <<challenges, detached, delivered, nextId, repo, event, issue>>

\* lines 485-489: await markIssueAsPaid(.., challengeId, dbIssue.labels)
close_markIssueAsPaid(p) ==
  /\ ctl[p].pc = "close_markIssueAsPaid"
  /\ \E ok \in BOOLEAN :
       /\ Log(p, <<Call1("markIssueAsPaid", "", Res(ok))>>)
       /\ Jump(p, IF ok THEN Return(ctl[p])
                  ELSE Catch(ctl[p], "close_catch2", "RemoteError"))
  /\ UNCHANGED <<db, challenges, detached, delivered, nextId, repo, event,
                 issue, local>>

\* lines 490-493: the catch block of the second try
close_catch2(p) ==
  /\ ctl[p].pc = "close_catch2"
  /\ Log(p, <<Call1("handleEventGracefully", ctl[p].err, "ok")>>)
  /\ Jump(p, Return(ctl[p]))
  /\ UNCHANGED <<db, challenges, detached, delivered, nextId, repo, event,
                 issue, local>>

(* -------------------------- handleIssueUpdate ------------------------- *)
\* lines 328-331: title, body and prizes of the record against the issue
NothingChangedNever(dbIssue, i) == FALSE
NothingChanged(dbIssue, i) ==
  /\ dbIssue.title = i.title
  /\ dbIssue.body = i.body
  /\ Len(dbIssue.prizes) = Len(i.prizes)
  /\ dbIssue.prizes[1] = i.prizes[1]

\* lines 326-338: dbIssue = await ensureChallengeExists(..) has returned
update_ensured(p) ==
  /\ ctl[p].pc = "update_ensured"
  /\ Jump(p, IF ~Truthy(local[p].dbIssue)
             THEN \* line 328: dbIssue.title of no record
                  Catch(ctl[p], "update_catch", "TypeError")
             ELSE IF NothingChanged(local[p].dbIssue, issue[p])
             THEN Return(ctl[p])
             ELSE Goto(ctl[p], "update_updateChallenge"))
  /\ UNCHANGED <<db, challenges, detached, delivered, nextId, repo, event,
                 issue, local, trace>>

\* lines 325 and 352: updateChallenge is awaited inside the try block, its
\* rejection goes to the catch block
UpdateRejectedIgnored(c) == Goto(c, "update_update")
UpdateRejected(c) == Catch(c, "update_catch", "RemoteError")

\* lines 338-344: await updateChallenge(challengeId, {name,
\* detailedRequirements, prizes})
update_updateChallenge(p) ==
  /\ ctl[p].pc = "update_updateChallenge"
  /\ \E ok \in {b \in BOOLEAN : b => Exists(local[p].dbIssue.challengeId)} :
       /\ Log(p, <<Call1("updateChallenge", "name", Res(ok))>>)
       /\ Jump(p, IF ok THEN Goto(ctl[p], "update_update")
                  ELSE UpdateRejected(ctl[p]))
  /\ UNCHANGED <<db, challenges, detached, delivered, nextId, repo, event,
                 issue, local>>

\* lines 344-351: await dbHelper.update(.., {title, body, prizes, labels,
\* assignee})
update_update(p) ==
  /\ ctl[p].pc = "update_update"
  /\ \E ok \in {b \in BOOLEAN : b => HasId(db, local[p].dbIssue.id)} :
       /\ Log(p, <<Call1("update", "title", Res(ok))>>)
       /\ IF ok
          THEN /\ db' = Updated(db, local[p].dbIssue.id,
                                [title |-> issue[p].title,
                                 body |-> issue[p].body,
                                 prizes |-> issue[p].prizes,
                                 labels |-> issue[p].labels,
                                 assignee |-> issue[p].assignee])
               /\ Jump(p, Goto(ctl[p], "update_createComment"))
          ELSE /\ Jump(p, Catch(ctl[p], "update_catch", "RemoteError"))
               /\ UNCHANGED db
  /\ UNCHANGED <<challenges, detached, delivered, nextId, repo, event, issue,
                 local>>

\* lines 352-355: await handleEventGracefully(event, issue, e); return
update_catch(p) ==
  /\ ctl[p].pc = "update_catch"
  /\ Log(p, <<Call1("handleEventGracefully", ctl[p].err, "ok")>>)
  /\ Jump(p, Return(ctl[p]))
  /\ UNCHANGED <<db, challenges, detached, delivered, nextId, repo, event,
                 issue, local>>

\* lines 356-365: await createComment(.. 'the new changes has been updated ..')
update_createComment(p) ==
  /\ ctl[p].pc = "update_createComment"
  /\ \E ok \in BOOLEAN :
       /\ Log(p, <<Call1("createComment", "updated", Res(ok))>>)
       /\ Jump(p, IF ok THEN Return(ctl[p]) ELSE Raise(ctl[p], "RemoteError"))
  /\ UNCHANGED <<db, challenges, detached, delivered, nextId, repo, event,
                 issue, local>>

(* ----------------------- handleIssueLabelUpdated ---------------------- *)
\* lines 589 and 594: dbIssue = await ensureChallengeExists(..) has returned
label_ensured(p) ==
  /\ ctl[p].pc = "label_ensured"
  /\ Jump(p, IF ~Truthy(local[p].dbIssue)
             THEN \* line 594: dbIssue.id of no record, outside the try
                  Raise(ctl[p], "TypeError")
             ELSE Goto(ctl[p], "label_update"))
  /\ UNCHANGED <<db, challenges, detached, delivered, nextId, repo, event,
                 issue, local, trace>>

\* lines 590-593: await handleEventGracefully(event, issue, e); return
label_catch(p) ==
  /\ ctl[p].pc = "label_catch"
  /\ Log(p, <<Call1("handleEventGracefully", ctl[p].err, "ok")>>)
  /\ Jump(p, Return(ctl[p]))
  /\ UNCHANGED <<db, challenges, detached, delivered, nextId, repo, event,
                 issue, local>>

\* lines 595-596: the fields the label update writes
LabelsCleared(i) == [labels |-> <<>>]
LabelsOf(i) == [labels |-> i.labels]

\* lines 594-598: await dbHelper.update(.., {labels: issue.labels})
label_update(p) ==
  /\ ctl[p].pc = "label_update"
  /\ \E ok \in {b \in BOOLEAN : b => HasId(db, local[p].dbIssue.id)} :
       /\ Log(p, <<Call1("update", "labels", Res(ok))>>)
       /\ IF ok
          THEN /\ db' = Updated(db, local[p].dbIssue.id, LabelsOf(issue[p]))
               /\ Jump(p, Return(ctl[p]))
          ELSE /\ Jump(p, Raise(ctl[p], "RemoteError"))
               /\ UNCHANGED db
  /\ UNCHANGED <<challenges, detached, delivered, nextId, repo, event, issue,
                 local>>

(* --------------------------- specifications --------------------------- *)
Handlers(p) ==
  \/ create_getProjectDetail(p) \/ create_scanOne(p) \/ create_create(p)
  \/ create_createChallenge(p) \/ create_update(p) \/ create_remove(p)
  \/ create_createComment(p) \/ create_assigned(p)
  \/ ensureChallengeExists(p)
  \/ rollback_getUsernameById(p) \/ rollback_createComment(p)
  \/ rollback_removeAssign(p) \/ rollback_reOpenIssue(p)
  \/ assign_getTCUserName(p) \/ assign_ensured(p)
  \/ assign_addLabels_notReady(p) \/ assign_addLabels_remain(p)
  \/ assign_rolledBack(p) \/ assign_getTopcoderMemberId(p)
  \/ assign_update(p) \/ assign_addLabels(p) \/ assign_catch(p)
  \/ assign_createComment(p)
  \/ unassign_ensured(p) \/ unassign_getUserIdByLogin(p)
  \/ unassign_getTCUserName(p) \/ unassign_getTopcoderMemberId(p)
  \/ unassign_createComment(p) \/ unassign_addLabels(p)
  \/ unassign_catch(p) \/ unassign_update(p)
  \/ close_ensured(p) \/ close_createComment(p) \/ close_getTCUserName(p)
  \/ close_rolledBack(p) \/ close_getProjectDetail(p)
  \/ close_getProjectBillingAccountId(p) \/ close_updateChallenge(p)
  \/ close_getTopcoderMemberId_winner(p)
  \/ close_getTopcoderMemberId_copilot(p)
  \/ close_addResourceToChallenge(p) \/ close_assignUserAsRegistrant(p)
  \/ close_activateChallenge(p) \/ close_closeChallenge(p)
  \/ close_catch(p) \/ close_update(p) \/ close_markIssueAsPaid(p)
  \/ close_catch2(p)
  \/ update_ensured(p) \/ update_updateChallenge(p) \/ update_update(p)
  \/ update_catch(p) \/ update_createComment(p)
  \/ label_ensured(p) \/ label_catch(p) \/ label_update(p)

\* the service as it runs: one event at a time
Next ==
  \/ \E p \in SeqProcs :
       process(p, Events) \/ Handlers(p) \/ Complete(p) \/ Redeliver(p)
  \/ \E d \in detached : detached_run(d)

Spec == Init /\ [][Next]_vars

\* issue.created events of one issue in flight together: their handlings
\* interleave at the awaits
ConcurrentEvents == {e \in CreatedEvents : e.assignees = <<>>}
NextConc ==
  \E p \in Procs :
    \/ process(p, ConcurrentEvents)
    \/ create_getProjectDetail(p) \/ create_scanOne(p) \/ create_create(p)
    \/ create_createChallenge(p) \/ create_update(p) \/ create_remove(p)
    \/ create_createComment(p)
    \/ Complete(p)

SpecConc == Init /\ [][NextConc]_vars

(* ----------------------------- properties ----------------------------- *)
\* the operations a handling has called so far
Ops(t) == {t[i].op : i \in 1..Len(t)}
Called(t, op) == op \in Ops(t)
CalledOk(t, op) == \E i \in 1..Len(t) : t[i].op = op /\ t[i].res = "ok"
Failed(t) == \E i \in 1..Len(t) : t[i].res = "fail"
\* the calls to the challenge platform, to the issue tracker and the writes
\* of the record store
PlatformOps ==
  {"createChallenge", "updateChallenge", "activateChallenge",
   "closeChallenge", "getProjectBillingAccountId", "getTopcoderMemberId",
   "addResourceToChallenge", "assignUserAsRegistrant",
   "removeResourceToChallenge", "challengesIdResourcesPost", "setTimeout"}
TrackerOps ==
  {"createComment", "addLabels", "markIssueAsPaid", "removeAssign",
   "reOpenIssue", "getUsernameById", "getUserIdByLogin"}
StoreWrites == {"create", "update", "remove"}
OneRecord(store, i) == Cardinality(Matching(store, i)) = 1

\* slot p handles an issue.closed event that was delivered with
\* paymentSuccessful true: the flag is set and this handling did not set it
DeliveredPaid(p) ==
  /\ ctl[p].handler = "handleIssueClose"
  /\ event[p].paymentSuccessful
  /\ ~CalledOk(trace[p], "closeChallenge")

\* C1, as the specification states it: an issue.closed event delivered with
\* paymentSuccessful true makes no call to the challenge platform or to the
\* issue tracker and no write to the record store.
C1_NoWorkWhenPaid ==
  \A p \in SeqProcs :
    DeliveredPaid(p) =>
      Ops(trace[p]) \cap (PlatformOps \cup TrackerOps \cup StoreWrites) = {}

\* C1, as the code has it: an issue.closed event delivered with
\* paymentSuccessful true skips the payment block only; it makes no call to
\* the challenge platform and posts no comment, but it still reads the
\* record, writes the record's labels and marks the issue as paid on the
\* tracker (lines 474-489), in that order.
C1_PaidSkipsPaymentOnly ==
  \A p \in SeqProcs :
    DeliveredPaid(p) =>
      /\ Ops(trace[p]) \subseteq
           {"scanOne", "update", "markIssueAsPaid", "handleEventGracefully"}
      /\ Called(trace[p], "markIssueAsPaid") => CalledOk(trace[p], "update")
      /\ (ctl[p].pc = "done" /\ ctl[p].outcome = "returned"
          /\ ~Failed(trace[p]) /\ Truthy(local[p].dbIssue)) =>
            CalledOk(trace[p], "markIssueAsPaid")

\* C1 witness: a paid issue.closed event was handled to its end, with the
\* label write and the paid mark done
C1_Witness ==
  \E p \in SeqProcs :
    /\ DeliveredPaid(p)
    /\ ctl[p].pc = "done"
    /\ CalledOk(trace[p], "update")
    /\ CalledOk(trace[p], "markIssueAsPaid")

\* C2: in every reachable state, under any interleaving of the handlings of
\* events of one issue, the store holds at most one record per (number,
\* provider, repositoryId).
C2_OneRecordPerKey ==
  \A r1 \in db, r2 \in db : KeyOf(r1) = KeyOf(r2) => r1 = r2

\* C3: when the duplicate check of handleIssueCreate reads a record of the
\* issue's key, the handling ends there with the duplicate error: no record
\* is created, createChallenge is not called, and the one record of the key
\* is left as it was.
C3_DuplicateRejected ==
  [][\A p \in SeqProcs :
       (/\ ctl[p].pc = "create_scanOne"
        /\ ctl'[p].pc # "create_scanOne"
        /\ Matching(db, issue[p]) # {}
        /\ trace'[p][Len(trace'[p])].res = "ok") =>
         /\ ctl'[p].pc = "done"
         /\ ctl'[p].outcome = "raised"
         /\ ctl'[p].err = "Duplicate"
         /\ ~Called(trace'[p], "create")
         /\ ~Called(trace'[p], "createChallenge")
         /\ db' = db
         /\ challenges' = challenges
         /\ OneRecord(db', issue[p])]_vars

\* C3 witness: the second of two issue.created events of the issue ended
\* with the duplicate error, the record of the first in the store
C3_Witness ==
  \E p \in SeqProcs :
    /\ ctl[p].handler = "handleIssueCreate"
    /\ ctl[p].pc = "done"
    /\ ctl[p].err = "Duplicate"
    /\ delivered = 2
    /\ \E r \in Matching(db, issue[p]) :
         r.status = "challenge_creation_successful"

\* the handler of slot p has its record from ensureChallengeExists
EnsuredPcs ==
  {"update_ensured", "close_ensured", "label_ensured", "unassign_ensured",
   "assign_ensured"}
Ensured(p) == ctl[p].pc \in EnsuredPcs

\* C4: ensureChallengeExists raises the reschedule error for a record in
\* challenge_creation_pending, so no handler ever goes on with a pending
\* record.
C4_PendingReschedules ==
  \A p \in SeqProcs :
    Ensured(p) =>
      StatusOf(local[p].dbIssue) # "challenge_creation_pending"

\* C5: ensureChallengeExists deletes a record in challenge_creation_failed
\* and creates the issue again, so once it has returned with no call
\* failed the key has exactly one record, in challenge_creation_successful.
C5_FailedRecreated ==
  \A p \in SeqProcs :
    (Ensured(p) /\ ~Failed(trace[p])
     /\ StatusOf(local[p].dbIssue) = "challenge_creation_failed") =>
      /\ OneRecord(db, issue[p])
      /\ \A r \in Matching(db, issue[p]) :
           r.status = "challenge_creation_successful"

\* C6: ensureChallengeExists returns a record that is in the store or
\* fails; it never hands no record to a handler that goes on.
C6_NeverNull ==
  \A p \in SeqProcs :
    Ensured(p) => Truthy(local[p].dbIssue) /\ local[p].dbIssue \in db

\* slot p handles the assignment of a mapped user to an issue without the
\* open-for-pickup label
GatedAssignment(p) ==
  /\ ctl[p].handler = "handleIssueAssignment"
  /\ Truthy(getTCUserName(event[p].assignee))
  /\ ~Includes(event[p].labels, OPEN_FOR_PICKUP_ISSUE_LABEL)

\* C7: the assignment of a mapped user to an issue without the
\* open-for-pickup label never calls the platform and, when no call of the
\* handling fails, ends with the rollback: a comment, then the removal of
\* the tracker assignment.
C7_GatedRollsBack ==
  \A p \in SeqProcs :
    GatedAssignment(p) =>
      /\ Ops(trace[p]) \cap PlatformOps = {}
      /\ (ctl[p].pc = "done" /\ ~Failed(trace[p])) =>
           \E i \in 1..Len(trace[p]), j \in 1..Len(trace[p]) :
             /\ i < j
             /\ trace[p][i].op = "createComment"
             /\ trace[p][j].op = "removeAssign"

\* slot p has handled issue.unassigned for an issue that has a record
UnassignedDone(p) ==
  /\ ctl[p].handler = "handleIssueUnAssignment"
  /\ ctl[p].pc = "done"
  /\ Truthy(local[p].dbIssue)
IsCleared(r) == r.assignee = NULL /\ r.assignedAt = NULL

ZeroPrizeClose(p) ==
  /\ ctl[p].handler = "handleIssueClose"
  /\ ~DeliveredPaid(p)
  /\ issue[p].prizes[1] = 0

\* C9, as the specification states it: every issue.closed event with
\* primary prize 0, handled with no call failing, schedules the
\* cancellation of the challenge and does not call closeChallenge.
C9_AlwaysCancels ==
  \A p \in SeqProcs :
    (ZeroPrizeClose(p) /\ ctl[p].pc = "done" /\ ~Failed(trace[p])
     /\ Truthy(local[p].dbIssue)) =>
      /\ Called(trace[p], "setTimeout")
      /\ ~Called(trace[p], "closeChallenge")

\* C9, as the code has it: an issue.closed event with primary prize 0 never
\* calls closeChallenge and never becomes paid, whatever its labels; the
\* cancellation is scheduled exactly when the handling gets through
\* activateChallenge, which an event without assignee or with the paid
\* label never does (lines 399-408).
C9_ZeroPrizeNeverPaid ==
  \A p \in SeqProcs :
    ZeroPrizeClose(p) =>
      /\ ~Called(trace[p], "closeChallenge")
      /\ ~event[p].paymentSuccessful
      /\ Called(trace[p], "setTimeout") <=>
           CalledOk(trace[p], "activateChallenge")
      /\ (event[p].assignee = NULL
          \/ Includes(event[p].labels, PAID_ISSUE_LABEL)) =>
           ~Called(trace[p], "setTimeout")
      /\ Called(trace[p], "setTimeout") =>
           ctl[p].pc = "done" /\ ctl[p].outcome = "returned"

\* C9 witness: an issue with the fix-accepted label and primary prize 0 was
\* closed and the cancellation of its challenge was scheduled
C9_Witness ==
  \E p \in SeqProcs :
    /\ ZeroPrizeClose(p)
    /\ Includes(event[p].labels, FIX_ACCEPTED_ISSUE_LABEL)
    /\ Called(trace[p], "setTimeout")
    /\ \E d \in detached : d.op = "cancelPrivateContent"

\* C10: once the paymentSuccessful flag of an event is true, every later
\* step of its handling, every failure path and every re-delivery leaves
\* it true, until the event leaves the service.
C10_PaymentSticky ==
  [][\A p \in SeqProcs :
       (event[p].paymentSuccessful /\ ctl'[p].pc # "idle") =>
         event'[p].paymentSuccessful]_vars

\* C10 witness: a paid event was delivered again after the failure path of
\* the first try block (lines 469-473) and is still paid
C10_Witness ==
  \E p \in SeqProcs :
    /\ event[p].paymentSuccessful
    /\ event[p].retryCount > 0
    /\ ctl[p].handler = "handleIssueClose"
    /\ ctl[p].err = "RemoteError"
    /\ Called(trace[p], "handleEventGracefully")
    /\ ~Called(trace[p], "update")

\* the 'contest created' comments a handling has posted
CreatedComments(t) ==
  {i \in 1..Len(t) : /\ t[i].op = "createComment"
                     /\ t[i].arg = "created"
                     /\ t[i].res = "ok"}
\* slot p handles issue.created and no step of it has failed or ended it
CreateUnfailed(p) ==
  /\ ctl[p].handler = "handleIssueCreate"
  /\ ~Failed(trace[p])
  /\ ctl[p].err = "none"

\* C11: handling issue.created for a key with no record, the project
\* found and every call succeeding, ends with exactly one record of the
\* key, in challenge_creation_successful, holding the id createChallenge
\* returned and the prizes of the issue, and with one 'contest created'
\* comment, posted after the record reached that status.
C11_CreatedEndToEnd ==
  \A p \in SeqProcs :
    ctl[p].handler = "handleIssueCreate" =>
      /\ (CreateUnfailed(p) /\ ctl[p].pc = "done") =>
           Cardinality(CreatedComments(trace[p])) = 1
      /\ Cardinality(CreatedComments(trace[p])) <= 1
      /\ CreatedComments(trace[p]) # {} =>
           /\ OneRecord(db, issue[p])
           /\ Exists(issue[p].challengeId)
           /\ challenges[issue[p].challengeId].number = issue[p].number
           /\ \A r \in Matching(db, issue[p]) :
                /\ r.status = "challenge_creation_successful"
                /\ r.challengeId = issue[p].challengeId
                /\ r.prizes = issue[p].prizes
                /\ r.id = local[p].created.id

\* C11 witness: an issue.created event was handled to its end with no
\* failure; its record and its comment are there
C11_Witness ==
  \E p \in SeqProcs :
    /\ CreateUnfailed(p)
    /\ ctl[p].pc = "done"
    /\ CreatedComments(trace[p]) # {}
    /\ \E r \in Matching(db, issue[p]) :
         r.status = "challenge_creation_successful"

\* createChallenge, or the update that follows it, failed in the handling
CreationFailed(t) ==
  \E i \in 1..Len(t) :
    /\ t[i].res = "fail"
    /\ \/ t[i].op = "createChallenge"
       \/ t[i].op = "update" /\ t[i].arg = "status"

\* C12: when createChallenge or the update after it fails in
\* handleIssueCreate, the handling ends with no record of the key left, the
\* failure reported through handleEventGracefully, no 'contest created'
\* comment, and the handler returned without raising.
C12_FailedCreationCleansUp ==
  \A p \in SeqProcs :
    (/\ ctl[p].handler = "handleIssueCreate"
     /\ CreationFailed(trace[p])
     /\ ctl[p].pc = "done") =>
      /\ Matching(db, issue[p]) = {}
      /\ Called(trace[p], "handleEventGracefully")
      /\ CreatedComments(trace[p]) = {}
      /\ ctl[p].outcome = "returned"

\* the createChallenge call of slot p is in flight
CreationInFlight(p) == ctl[p].pc = "create_createChallenge"

\* C13: handleIssueCreate writes the record in challenge_creation_pending
\* before it calls createChallenge: while the call is in flight, with the
\* handlings of other events of the issue interleaved, the store holds a
\* pending record of the key for them to read.
C13_PendingBeforeRemote ==
  \A p \in Procs :
    /\ CreationInFlight(p) =>
         /\ CalledOk(trace[p], "create")
         /\ ~Called(trace[p], "createChallenge")
         /\ \E r \in Matching(db, issue[p]) :
              r.status = "challenge_creation_pending"
    /\ Called(trace[p], "createChallenge") =>
         \E i \in 1..Len(trace[p]), j \in 1..Len(trace[p]) :
           /\ i < j
           /\ trace[p][i].op = "create" /\ trace[p][i].res = "ok"
           /\ trace[p][j].op = "createChallenge"

\* C13 witness: one handling is about to read the store while the
\* createChallenge call of another is in flight
C13_Witness ==
  \E p \in Procs, q \in Procs :
    /\ p # q
    /\ CreationInFlight(p)
    /\ ctl[q].pc = "create_scanOne"
    /\ \E r \in Matching(db, issue[q]) :
         r.status = "challenge_creation_pending"

\* after its first failed call the handling only cleans up and reports
StoppedAtFailure(t) ==
  \A i \in 1..Len(t), j \in 1..Len(t) :
    (i < j /\ t[i].res = "fail") =>
      t[j].op \in {"handleEventGracefully", "remove"}

\* C14: whatever the event kind, when a call of a handler fails the
\* handler reports the failure through handleEventGracefully, takes no
\* further step for the event and returns without raising.
C14_FailuresReported ==
  \A p \in SeqProcs :
    (/\ ctl[p].handler # "none"
     /\ ctl[p].pc = "done"
     /\ Failed(trace[p])) =>
      /\ Called(trace[p], "handleEventGracefully")
      /\ StoppedAtFailure(trace[p])
      /\ ctl[p].outcome = "returned"

\* slot p is at one of its awaited additions of a resource
AddingResource(p) ==
  ctl[p].pc \in {"close_addResourceToChallenge", "close_assignUserAsRegistrant"}
LastCall(t) == t[Len(t)]
ReplyOf(t) == t[Len(t) - 1].res

\* C15: adding a (roleId, userId) resource the challenge already has
\* completes without raising and leaves the resources of the challenge as
\* the first addition left them.
C15_AddResourceIdempotent ==
  [][\A p \in SeqProcs :
       (/\ AddingResource(p)
        /\ ~AddingResource(p)' \/ ctl'[p].pc # ctl[p].pc
        /\ ReplyOf(trace'[p]) = "already exists") =>
         /\ LastCall(trace'[p]).res = "ok"
         /\ ctl'[p].pc \in {"close_assignUserAsRegistrant",
                            "close_activateChallenge"}
         /\ challenges' = challenges]_vars

\* C15 witness: the copilot was added to a challenge that had it already,
\* and the handling went on
C15_Witness ==
  \E p \in SeqProcs :
    /\ ctl[p].pc = "close_assignUserAsRegistrant"
    /\ ReplyOf(trace[p]) = "already exists"
    /\ <<COPILOT_ROLE, getTopcoderMemberId(CopilotHandle)>>
         \in challenges[local[p].dbIssue.challengeId].resources

(* ----------------------------- parsePrizes ---------------------------- *)
\* a title is a sequence of characters; the longest titles parsed
MaxTitleLen == 6
Chars == {"[", "]", "$", "1", " ", "a"}
Titles == UNION {[1..n -> Chars] : n \in 0..MaxTitleLen}
IsDigit(c) == c \in {"0", "1", "2", "3", "4", "5", "6", "7", "8", "9"}
DigitValue(c) ==
  CASE c = "0" -> 0 [] c = "1" -> 1 [] c = "2" -> 2 [] c = "3" -> 3
    [] c = "4" -> 4 [] c = "5" -> 5 [] c = "6" -> 6 [] c = "7" -> 7
    [] c = "8" -> 8 [] c = "9" -> 9

\* [0-9]+ from position i, greedy: the position after the digits
RECURSIVE DigitsEnd(_, _)
DigitsEnd(s, i) ==
  IF i <= Len(s) /\ IsDigit(s[i]) THEN DigitsEnd(s, i + 1) ELSE i
\* the lookahead (?=.*\]) at position i
ClosesAfter(s, i) == \E k \in i..Len(s) : s[k] = "]"
\* line 48: title.match(/(\$[0-9]+)(?=.*\])/g), the matches from position i
\* on, left to right, each without its '$'
RECURSIVE Matches(_, _)
Matches(s, i) ==
  IF i > Len(s) THEN <<>>
  ELSE IF /\ s[i] = "$"
          /\ DigitsEnd(s, i + 1) > i + 1
          /\ ClosesAfter(s, DigitsEnd(s, i + 1))
  THEN <<SubSeq(s, i + 1, DigitsEnd(s, i + 1) - 1)>>
         \o Matches(s, DigitsEnd(s, i + 1))
  ELSE Matches(s, i + 1)
\* line 54: parseInt(digits, 10)
RECURSIVE ParseInt(_)
ParseInt(d) ==
  IF d = <<>> THEN 0
  ELSE 10 * ParseInt(SubSeq(d, 1, Len(d) - 1)) + DigitValue(d[Len(d)])
\* line 55: title.replace(/^(\[.*\])/, ''): from a leading '[' to the last
\* ']' of the title, as .* is greedy
Stripped(s) ==
  IF s # <<>> /\ s[1] = "[" /\ ClosesAfter(s, 2)
  THEN LET last == CHOOSE k \in 2..Len(s) :
                     s[k] = "]" /\ \A j \in (k + 1)..Len(s) : s[j] # "]"
       IN SubSeq(s, last + 1, Len(s))
  ELSE s
\* line 55: .trim()
RECURSIVE Trim(_)
Trim(s) ==
  IF s = <<>> THEN s
  ELSE IF s[1] = " " THEN Trim(Tail(s))
  ELSE IF s[Len(s)] = " " THEN Trim(SubSeq(s, 1, Len(s) - 1))
  ELSE s

\* lines 47-56: the issue as parsePrizes leaves it, and whether it threw
ParseFails(title) == Matches(title, 1) = <<>>
Parsed(i) ==
  IF ParseFails(i.title) THEN i
  ELSE [i EXCEPT !.prizes = [k \in 1..Len(Matches(i.title, 1)) |->
                               ParseInt(Matches(i.title, 1)[k])],
                 !.title = Trim(Stripped(i.title))]

\* parsePrizes(issue) on the title of the event
parsePrizes(p) ==
  /\ ctl[p].pc = "parsePrizes"
  /\ issue' = [issue EXCEPT ![p] = Parsed(@)]
  /\ Jump(p, IF ParseFails(issue[p].title)
             THEN Raise(ctl[p], "ParseError")
             ELSE Return(ctl[p]))
  /\ UNCHANGED <<db, challenges, detached, delivered, nextId, repo, event,
                 local, trace>>

\* process() up to line 682, for every title
InitParse ==
  /\ repo \in {[provider |-> pr, id |-> 1] : pr \in Providers}
  /\ db = {}
  /\ challenges = <<>>
  /\ detached = {}
  /\ delivered = 0
  /\ nextId = 0
  /\ ctl = [p \in Procs |->
              IF p \in SeqProcs THEN [Idle EXCEPT !.pc = "parsePrizes"]
              ELSE Idle]
  /\ \E t \in Titles :
       /\ event = [p \in Procs |-> [title |-> t]]
       /\ issue = [p \in Procs |-> [title |-> t, prizes |-> <<>>]]
  /\ local = [p \in Procs |-> LocalInit]
  /\ trace = [p \in Procs |-> <<>>]
NextParse == \E p \in SeqProcs : parsePrizes(p)
SpecParse == InitParse /\ [][NextParse]_vars

\* the leading bracketed segment of a title: its longest prefix made of
\* groups '[..]' with no bracket inside; the length of that prefix from i
RECURSIVE LeadingEnd(_, _)
LeadingEnd(s, i) ==
  IF /\ i <= Len(s)
     /\ s[i] = "["
     /\ \E k \in (i + 1)..Len(s) :
          s[k] = "]" /\ \A j \in (i + 1)..(k - 1) : s[j] \notin {"[", "]"}
  THEN LeadingEnd(s, 1 + CHOOSE k \in (i + 1)..Len(s) :
                           /\ s[k] = "]"
                           /\ \A j \in (i + 1)..(k - 1) : s[j] \notin {"[", "]"})
  ELSE i - 1
LeadingSegment(s) == SubSeq(s, 1, LeadingEnd(s, 1))
\* the $<digits> tokens of a text, left to right, as numbers
RECURSIVE Tokens(_, _)
Tokens(s, i) ==
  IF i > Len(s) THEN <<>>
  ELSE IF s[i] = "$" /\ DigitsEnd(s, i + 1) > i + 1
  THEN <<ParseInt(SubSeq(s, i + 1, DigitsEnd(s, i + 1) - 1))>>
         \o Tokens(s, DigitsEnd(s, i + 1))
  ELSE Tokens(s, i + 1)

\* C16: parsePrizes makes the prizes of the issue exactly the $<digits>
\* tokens of the leading bracketed segment of the title, left to right,
\* and strips only that segment from the title; with no such token it
\* fails and sets no prizes.
C16_PrizesOfLeadingSegment ==
  \A p \in SeqProcs :
    ctl[p].pc = "done" =>
      LET title == event[p].title
          expected == Tokens(LeadingSegment(title), 1)
      IN IF expected = <<>>
         THEN ctl[p].outcome = "raised" /\ issue[p].prizes = <<>>
         ELSE /\ ctl[p].outcome = "returned"
              /\ issue[p].prizes = expected
              /\ issue[p].title =
                   Trim(SubSeq(title, LeadingEnd(title, 1) + 1, Len(title)))

\* the steps of the open-for-pickup branch that follow the registration
AssignmentSteps ==
  {[op |-> "update", arg |-> "assignee"],
   [op |-> "addLabels", arg |-> "assigned"],
   [op |-> "createComment", arg |-> "assigned"]}
IsAssignmentStep(e) == [op |-> e.op, arg |-> e.arg] \in AssignmentSteps

\* C17: in the open-for-pickup branch of handleIssueAssignment the record
\* update, the label switch and the 'assigned' comment are issued only
\* after the registration of the assignee completed successfully, and the
\* registrant is then a resource of the challenge of the record.
C17_RegisteredBeforeAssigned ==
  \A p \in SeqProcs :
    ctl[p].handler = "handleIssueAssignment" =>
      \A k \in 1..Len(trace[p]) :
        IsAssignmentStep(trace[p][k]) =>
          /\ \E j \in 1..(k - 1) :
               /\ trace[p][j].op = "assignUserAsRegistrant"
               /\ trace[p][j].res = "ok"
          /\ <<REGISTRANT_ROLE,
               getTopcoderMemberId(local[p].userMapping.topcoderUsername)>>
               \in challenges[local[p].dbIssue.challengeId].resources

\* slot p handles an issue.assigned event whose assignee has no platform
\* mapping, and the lookup of the mapping has answered
UnmappedAssignment(p) ==
  /\ ctl[p].handler = "handleIssueAssignment"
  /\ ~Truthy(getTCUserName(event[p].assignee))
  /\ trace[p] # <<>>
  /\ trace[p][1].res = "ok"
\* the calls of the rollback of an unmapped assignee, in order
UnmappedRollback ==
  <<"getTCUserName", "getUsernameById", "createComment", "removeAssign">>
OpsInOrder(t) == [i \in 1..Len(t) |-> t[i].op]
IsPrefix(s, t) == Len(s) <= Len(t) /\ SubSeq(t, 1, Len(s)) = s

\* C18: an issue.assigned event whose assignee has no platform mapping
\* goes to the rollback: the sign-up comment, then the tracker unassign,
\* without re-opening the issue; the handler reads and writes no record
\* and makes no call to the challenge platform.
C18_UnmappedRollsBack ==
  \A p \in SeqProcs :
    UnmappedAssignment(p) =>
      /\ IsPrefix(OpsInOrder(trace[p]), UnmappedRollback)
      /\ \A k \in 1..Len(trace[p]) :
           trace[p][k].op = "createComment" => trace[p][k].arg = "sign-up"
      /\ Ops(trace[p]) \cap (PlatformOps \cup StoreWrites \cup {"scanOne"}) = {}
      /\ ~Called(trace[p], "reOpenIssue")
      /\ (ctl[p].pc = "done" /\ ~Failed(trace[p])) =>
           /\ OpsInOrder(trace[p]) = UnmappedRollback
           /\ ctl[p].outcome = "returned"
C18_Witness ==
  \E p \in SeqProcs :
    /\ UnmappedAssignment(p)
    /\ ctl[p].pc = "done"
    /\ OpsInOrder(trace[p]) = UnmappedRollback
    /\ ~Failed(trace[p])

\* a call of the try block of handleIssueUnAssignment failed
BranchFailed(t) ==
  \E k \in 1..Len(t) : t[k].res = "fail" /\ t[k].op # "update"

PaymentOps ==
  PlatformOps \cup (TrackerOps \ {"markIssueAsPaid"}) \cup {"getTCUserName"}
IsNotProcessedComment(e) == e.op = "createComment" /\ e.arg = "not processed"
HasFixAccepted(p) == Includes(event[p].labels, FIX_ACCEPTED_ISSUE_LABEL)

\* C20: handleIssueClose calls closeChallenge, and sets paymentSuccessful,
\* only for an event that carries the fix-accepted label and has a non-zero
\* primary prize. Without the label the first call of the payment block is
\* the 'not processed for payment' comment, closeChallenge is never called,
\* paymentSuccessful stays false, and an activated challenge is scheduled
\* for cancellation.
C20_PaidOnlyWhenAccepted ==
  \A p \in SeqProcs :
    ctl[p].handler = "handleIssueClose" =>
      /\ Called(trace[p], "closeChallenge") =>
           /\ HasFixAccepted(p)
           /\ issue[p].prizes[1] # 0
           /\ ~Called(trace[p], "setTimeout")
           /\ \A k \in 1..Len(trace[p]) : ~IsNotProcessedComment(trace[p][k])
      /\ CalledOk(trace[p], "closeChallenge") => event[p].paymentSuccessful
      /\ (event[p].paymentSuccessful /\ Ops(trace[p]) \cap PaymentOps # {}) =>
           CalledOk(trace[p], "closeChallenge")
      /\ ~HasFixAccepted(p) =>
           /\ \A k \in 1..Len(trace[p]) :
                (trace[p][k].op \in PaymentOps
                   /\ ~IsNotProcessedComment(trace[p][k])) =>
                  \E j \in 1..(k - 1) :
                    IsNotProcessedComment(trace[p][j]) /\ trace[p][j].res = "ok"
           /\ CalledOk(trace[p], "activateChallenge") =>
                /\ Called(trace[p], "setTimeout")
                /\ ctl[p].pc = "done"
                /\ ctl[p].outcome = "returned"
\* C20 witness: a closed issue with the label and a prize was paid
C20_Witness ==
  \E p \in SeqProcs :
    /\ ctl[p].handler = "handleIssueClose"
    /\ ctl[p].pc = "done"
    /\ HasFixAccepted(p)
    /\ issue[p].prizes[1] # 0
    /\ CalledOk(trace[p], "closeChallenge")
    /\ event[p].paymentSuccessful

\* slot p handles an issue.closed event whose assignee has no platform
\* mapping, and the lookup of the mapping has answered
UnmappedClose(p) ==
  /\ ctl[p].handler = "handleIssueClose"
  /\ event[p].assignee # NULL
  /\ ~Truthy(getTCUserName(event[p].assignee))
  /\ CalledOk(trace[p], "getTCUserName")

\* C21: an issue.closed event whose assignee has no platform mapping is
\* rolled back with reopen (comment, unassign, re-open) and handled no
\* further: no updateChallenge, no resource added, no activateChallenge, no
\* closeChallenge and no cancellation, and paymentSuccessful stays false.
C21_UnmappedCloseStops ==
  \A p \in SeqProcs :
    UnmappedClose(p) =>
      /\ Ops(trace[p]) \cap
           {"updateChallenge", "addResourceToChallenge",
            "assignUserAsRegistrant", "activateChallenge", "closeChallenge",
            "setTimeout"} = {}
      /\ ~event[p].paymentSuccessful
      /\ (ctl[p].pc = "done" /\ ~Failed(trace[p])) =>
           LastCall(trace[p]).op = "reOpenIssue"

\* the calls of a handling to the issue tracker other than the 'not
\* processed for payment' comment
OtherTrackerCalls(t) ==
  {k \in 1..Len(t) : t[k].op \in TrackerOps /\ ~IsNotProcessedComment(t[k])}
\* the handling called nothing but the scan of the record and, for an
\* event without the fix-accepted label, the comment of lines 384-390
OnlyNotProcessed(p) ==
  /\ Ops(trace[p]) \cap (PlatformOps \cup StoreWrites) = {}
  /\ OtherTrackerCalls(trace[p]) = {}
  /\ HasFixAccepted(p) => Ops(trace[p]) \cap TrackerOps = {}
  /\ ~event[p].paymentSuccessful
  /\ (ctl[p].pc = "done" /\ ~Failed(trace[p])) =>
       /\ ctl[p].outcome = "returned"
       /\ ~Called(trace[p], "handleEventGracefully")
       /\ ~HasFixAccepted(p) =>
            /\ Len(trace[p]) = 2
            /\ IsNotProcessedComment(LastCall(trace[p]))
\* the handling made no tracker call, no platform call and no record write
NoOp(p) ==
  /\ Ops(trace[p]) \cap (TrackerOps \cup PlatformOps \cup StoreWrites) = {}
  /\ ~event[p].paymentSuccessful

\* slot p handles an issue.closed event, delivered unpaid, with no assignee
UnassignedClose(p) ==
  /\ ctl[p].handler = "handleIssueClose"
  /\ ~DeliveredPaid(p)
  /\ event[p].assignee = NULL

\* C22, as the specification states it: an unpaid issue.closed event with
\* no assignee makes no tracker call, no platform call and no record
\* write, and paymentSuccessful stays false.
C22_NoAssigneeNoOp ==
  \A p \in SeqProcs : UnassignedClose(p) => NoOp(p)

\* C22, as the code has it: an unpaid issue.closed event with no assignee
\* makes no platform call and no record write and paymentSuccessful stays
\* false; its only tracker call is the 'not processed for payment' comment,
\* posted when the fix-accepted label is missing (lines 382-391, before the
\* assignee is looked at).
C22_NoAssigneeOnlyComments ==
  \A p \in SeqProcs : UnassignedClose(p) => OnlyNotProcessed(p)
\* C22 witness: no assignee and no fix-accepted label, the comment was
\* posted and the handler returned
C22_Witness ==
  \E p \in SeqProcs :
    /\ UnassignedClose(p)
    /\ ctl[p].pc = "done"
    /\ ~HasFixAccepted(p)
    /\ IsNotProcessedComment(LastCall(trace[p]))
    /\ LastCall(trace[p]).res = "ok"

\* slot p handles an issue.closed event, delivered unpaid, of an assigned
\* issue that carries the paid label
PaidLabelClose(p) ==
  /\ ctl[p].handler = "handleIssueClose"
  /\ ~DeliveredPaid(p)
  /\ event[p].assignee # NULL
  /\ Includes(event[p].labels, PAID_ISSUE_LABEL)

OkAt(t, k, op) == t[k].op = op /\ t[k].res = "ok"
\* before entry k of t: updateChallenge, then the copilot resource, then
\* the registrant, each completed successfully
PreparedBefore(t, k) ==
  \E u \in 1..(k - 1), c \in 1..(k - 1), r \in 1..(k - 1) :
    /\ u < c /\ c < r
    /\ OkAt(t, u, "updateChallenge") /\ t[u].arg = "billingAccountId"
    /\ OkAt(t, c, "addResourceToChallenge")
    /\ OkAt(t, r, "assignUserAsRegistrant")

\* C24: handleIssueClose issues activateChallenge only after updateChallenge
\* with the billing account and the prizes, the addition of the copilot and
\* the registration of the winner completed successfully, in that order,
\* the copilot then being a resource of the challenge; closeChallenge and
\* the scheduling of the cancellation come only after activateChallenge
\* succeeded.
C24_ActivatedAfterPrepared ==
  \A p \in SeqProcs :
    ctl[p].handler = "handleIssueClose" =>
      \A k \in 1..Len(trace[p]) :
        /\ trace[p][k].op = "activateChallenge" =>
             /\ PreparedBefore(trace[p], k)
             /\ <<COPILOT_ROLE, getTopcoderMemberId(CopilotHandle)>>
                  \in challenges[local[p].dbIssue.challengeId].resources
        /\ trace[p][k].op \in {"closeChallenge", "setTimeout"} =>
             /\ k > 1
             /\ OkAt(trace[p], k - 1, "activateChallenge")
\* C24 witness: the challenge was prepared and activated and the handler is
\* about to close it with the winner
C24_Witness ==
  \E p \in SeqProcs :
    /\ ctl[p].handler = "handleIssueClose"
    /\ ctl[p].pc = "close_closeChallenge"
    /\ OkAt(trace[p], Len(trace[p]), "activateChallenge")
    /\ PreparedBefore(trace[p], Len(trace[p]))

\* the cancellation that slot p left to the timer
Cancellation(p) ==
  Detach("cancelPrivateContent", local[p].dbIssue.challengeId, 0, NULL)

\* C25: once handleIssueClose has scheduled the cancellation it has
\* returned: the scheduling is its last call and is not awaited, it calls
\* no closeChallenge, leaves paymentSuccessful false and does not run the
\* label and mark-as-paid step; the cancellation itself is run by the
\* timer, after the return.
C25_CancellationNotAwaited ==
  \A p \in SeqProcs :
    (ctl[p].handler = "handleIssueClose" /\ Called(trace[p], "setTimeout")) =>
      /\ ctl[p].pc = "done"
      /\ ctl[p].outcome = "returned"
      /\ LastCall(trace[p]).op = "setTimeout"
      /\ LastCall(trace[p]).res = "not awaited"
      /\ Ops(trace[p]) \cap
           {"closeChallenge", "update", "markIssueAsPaid",
            "handleEventGracefully"} = {}
      /\ ~event[p].paymentSuccessful
\* C25 witness: the handler has returned and the cancellation is still to
\* run
C25_Witness ==
  \E p \in SeqProcs :
    /\ ctl[p].handler = "handleIssueClose"
    /\ ctl[p].pc = "done"
    /\ Called(trace[p], "setTimeout")
    /\ Cancellation(p) \in detached
    /\ challenges[local[p].dbIssue.challengeId].status = "active"

\* how often x is in an array
Count(seq, x) == Cardinality({i \in 1..Len(seq) : seq[i] = x})
\* the calls of trace t after its successful closeChallenge
AfterClose(t) ==
  {j \in 1..Len(t) : \E k \in 1..(j - 1) : OkAt(t, k, "closeChallenge")}

\* C26: after a successful closeChallenge the handler calls nothing but the
\* record update, markIssueAsPaid and, when one of them failed,
\* handleEventGracefully, so no call goes to the challenge platform, and
\* paymentSuccessful is true throughout; when both succeeded the labels of
\* the record hold 'assigned' exactly once and no 'open for pickup'.
C26_SecondStepKeepsClose ==
  \A p \in SeqProcs :
    (ctl[p].handler = "handleIssueClose"
       /\ CalledOk(trace[p], "closeChallenge")) =>
      /\ event[p].paymentSuccessful
      /\ \A j \in AfterClose(trace[p]) :
           trace[p][j].op \in {"update", "markIssueAsPaid",
                               "handleEventGracefully"}
      /\ ctl[p].pc = "done" =>
           /\ ctl[p].outcome = "returned"
           /\ IF Failed(trace[p])
              THEN /\ LastCall(trace[p]).op = "handleEventGracefully"
                   /\ trace[p][Len(trace[p]) - 1].res = "fail"
              ELSE /\ OkAt(trace[p], Len(trace[p]), "markIssueAsPaid")
                   /\ \E r \in db : r.id = local[p].dbIssue.id
                   /\ \A r \in db :
                        r.id = local[p].dbIssue.id =>
                          /\ Count(r.labels, ASSIGNED_ISSUE_LABEL) = 1
                          /\ ~Includes(r.labels, OPEN_FOR_PICKUP_ISSUE_LABEL)
\* C26 witness: the challenge was closed, markIssueAsPaid failed and the
\* failure was reported with paymentSuccessful true
C26_Witness ==
  \E p \in SeqProcs :
    /\ ctl[p].handler = "handleIssueClose"
    /\ ctl[p].pc = "done"
    /\ CalledOk(trace[p], "closeChallenge")
    /\ \E j \in AfterClose(trace[p]) :
         trace[p][j].op = "markIssueAsPaid" /\ trace[p][j].res = "fail"
    /\ LastCall(trace[p]).op = "handleEventGracefully"
    /\ event[p].paymentSuccessful

\* slot p handles an issue.updated event whose title, body and primary
\* prize are those of the record ensureChallengeExists returned
SamePrimary(p) ==
  /\ ctl[p].handler = "handleIssueUpdate"
  /\ Truthy(local[p].dbIssue)
  /\ local[p].dbIssue.title = issue[p].title
  /\ local[p].dbIssue.body = issue[p].body
  /\ local[p].dbIssue.prizes[1] = issue[p].prizes[1]
SamePrizeCount(p) == Len(local[p].dbIssue.prizes) = Len(issue[p].prizes)
\* the handling called nothing but the scan of the record
Ignored(p) ==
  /\ Ops(trace[p]) \subseteq {"scanOne"}
  /\ ctl[p].pc = "done" => ctl[p].outcome = "returned"

\* C27, as the specification states it: handleIssueUpdate calls no
\* updateChallenge, writes no record and posts no comment whenever title,
\* body and primary prize equal those of the record, whatever else differs.
C27_SamePrimaryIgnored ==
  \A p \in SeqProcs : SamePrimary(p) => Ignored(p)

\* C27, as the code has it: handleIssueUpdate calls no updateChallenge,
\* writes no record and posts no comment whenever title, body, primary
\* prize and the number of prizes equal those of the record, whatever else
\* differs (further prizes, labels, assignee); line 330 compares the
\* number of prizes too.
C27_SamePrimaryAndCountIgnored ==
  \A p \in SeqProcs : (SamePrimary(p) /\ SamePrizeCount(p)) => Ignored(p)
\* C27 witness: only the second prize differs and the event was ignored
C27_Witness ==
  \E p \in SeqProcs :
    /\ SamePrimary(p)
    /\ SamePrizeCount(p)
    /\ local[p].dbIssue.prizes # issue[p].prizes
    /\ ctl[p].pc = "done"
    /\ Ignored(p)

\* the fields handleIssueUpdate writes
Content(r) ==
  [title |-> r.title, body |-> r.body, prizes |-> r.prizes,
   labels |-> r.labels, assignee |-> r.assignee]
IsUpdatedComment(e) == e.op = "createComment" /\ e.arg = "updated"
UpdateChallengeFailed(t) ==
  \E k \in 1..Len(t) : t[k].op = "updateChallenge" /\ t[k].res = "fail"

\* C28: handleIssueUpdate writes the record only right after updateChallenge
\* succeeded and posts the comment only right after the record write
\* succeeded; when updateChallenge fails the record keeps the title, body,
\* prizes, labels and assignee it had, the failure is reported through
\* handleEventGracefully and no comment is posted.
C28_RecordAfterPlatform ==
  \A p \in SeqProcs :
    ctl[p].handler = "handleIssueUpdate" =>
      /\ \A k \in 1..Len(trace[p]) :
           /\ trace[p][k].op = "update" =>
                k > 1 /\ OkAt(trace[p], k - 1, "updateChallenge")
           /\ IsUpdatedComment(trace[p][k]) =>
                /\ k > 2
                /\ OkAt(trace[p], k - 1, "update")
                /\ OkAt(trace[p], k - 2, "updateChallenge")
      /\ UpdateChallengeFailed(trace[p]) =>
           /\ Ops(trace[p]) \cap ({"createComment"} \cup StoreWrites) = {}
           /\ \E r \in db : r.id = local[p].dbIssue.id
           /\ \A r \in db :
                r.id = local[p].dbIssue.id =>
                  Content(r) = Content(local[p].dbIssue)
           /\ ctl[p].pc = "done" =>
                /\ LastCall(trace[p]).op = "handleEventGracefully"
                /\ ctl[p].outcome = "returned"
\* C28 witness: a changed title was refused by the platform, the failure
\* was reported and the record keeps its title
C28_Witness ==
  \E p \in SeqProcs :
    /\ ctl[p].handler = "handleIssueUpdate"
    /\ ctl[p].pc = "done"
    /\ UpdateChallengeFailed(trace[p])
    /\ LastCall(trace[p]).op = "handleEventGracefully"
    /\ \E r \in db : r.id = local[p].dbIssue.id /\ r.title # issue[p].title

\* slot p handles issue.labelUpdated and ensureChallengeExists returned a
\* successfully created record
LabelsOfCreated(p) ==
  /\ ctl[p].handler = "handleIssueLabelUpdated"
  /\ Truthy(local[p].dbIssue)
  /\ local[p].dbIssue.status = "challenge_creation_successful"
EnsureFailed(t) == t # <<>> /\ t[1].op = "scanOne" /\ t[1].res = "fail"

\* C29: for an issue with a successfully created record the handling of
\* issue.labelUpdated writes the labels of the event to the record and
\* leaves every other field of the record as it was; the handler makes no
\* call to the challenge platform; when ensureChallengeExists fails the
\* failure is reported through handleEventGracefully and no record is
\* written.
C29_OnlyLabelsWritten ==
  \A p \in SeqProcs :
    ctl[p].handler = "handleIssueLabelUpdated" =>
      /\ Ops(trace[p]) \cap PlatformOps = {}
      /\ EnsureFailed(trace[p]) =>
           /\ Ops(trace[p]) \cap StoreWrites = {}
           /\ ctl[p].pc = "done" =>
                /\ LastCall(trace[p]).op = "handleEventGracefully"
                /\ ctl[p].outcome = "returned"
      /\ LabelsOfCreated(p) =>
           /\ (ctl[p].pc = "done" /\ ~Failed(trace[p])) =>
                /\ CalledOk(trace[p], "update")
                /\ ctl[p].outcome = "returned"
           /\ CalledOk(trace[p], "update") =>
                /\ \E r \in db : r.id = local[p].dbIssue.id
                /\ \A r \in db :
                     r.id = local[p].dbIssue.id =>
                       r = [local[p].dbIssue EXCEPT !.labels = issue[p].labels]
\* C29 witness: the labels of a created record were replaced
C29_Witness ==
  \E p \in SeqProcs :
    /\ LabelsOfCreated(p)
    /\ ctl[p].pc = "done"
    /\ CalledOk(trace[p], "update")
    /\ local[p].dbIssue.labels # issue[p].labels
    /\ \E r \in db : r.id = local[p].dbIssue.id /\ r.labels = issue[p].labels

\* slot p handles issue.created with an assignee in the payload and has
\* posted the 'contest created' comment
CreatedWithAssignee(p) ==
  /\ ctl[p].handler = "handleIssueCreate"
  /\ CreatedComments(trace[p]) # {}
  /\ event[p].assignees # <<>>
\* the assignment handler was entered right after entry k of the trace
AssignmentAfter(p, k) ==
  /\ event[p].assignee = event[p].assignees[1]
  /\ IF Len(trace[p]) = k
     THEN ctl[p].pc = "assign_getTCUserName"
     ELSE /\ trace[p][k + 1].op = "getTCUserName"
          /\ trace[p][k + 1].arg = event[p].assignees[1]

\* C30, as the specification states it: after a successful creation of an
\* issue whose payload has an assignee, the assignment handler is run
\* within the same event, whatever the provider.
C30_AssignedOnCreate ==
  \A p \in SeqProcs :
    (CreatedWithAssignee(p) /\ ctl[p].pc = "done") =>
      Called(trace[p], "getTCUserName")

\* C30, as the code has it: after a successful creation of an issue whose
\* payload has an assignee, the assignment handler is run for that assignee
\* within the same event when the provider is gitlab; for github the
\* handler returns after the 'contest created' comment (line 567).
C30_AssignedOnCreateForGitlab ==
  \A p \in SeqProcs :
    CreatedWithAssignee(p) =>
      \A k \in CreatedComments(trace[p]) :
        IF event[p].provider = "gitlab"
        THEN AssignmentAfter(p, k)
        ELSE /\ Len(trace[p]) = k
             /\ ctl[p].pc = "done"
             /\ ctl[p].outcome = "returned"
             /\ event[p].assignee = NULL
\* C30 witness: a gitlab issue created with an assignee, the assignment
\* handler has run to its end
C30_Witness ==
  \E p \in SeqProcs :
    /\ CreatedWithAssignee(p)
    /\ event[p].provider = "gitlab"
    /\ ctl[p].pc = "done"
    /\ ctl[p].outcome = "returned"
    /\ Called(trace[p], "getTCUserName")
    /\ ~Failed(trace[p])

\* a challenge is closed with a winner in this step
ClosedInStep ==
  \E c \in 1..Len(challenges) : challenges'[c].closed > challenges[c].closed

\* C31: a step closes a challenge with a winner only in the handling of an
\* event whose paymentSuccessful is false, and sets it true; a re-delivery
\* of an event whose paymentSuccessful is true keeps it true and closes
\* nothing. With C10 an event object therefore closes the challenge at
\* most once over all its deliveries, also when the label and mark-as-paid
\* step failed after the close.
C31_ClosedOncePerEvent ==
  [][\A p \in SeqProcs :
       /\ ClosedInStep =>
            /\ ctl[p].handler = "handleIssueClose"
            /\ ~event[p].paymentSuccessful
            /\ event'[p].paymentSuccessful
            /\ event'[p].retryCount = event[p].retryCount
            /\ \A c \in 1..Len(challenges) :
                 challenges'[c].closed <= challenges[c].closed + 1
       /\ (event[p].paymentSuccessful
             /\ event'[p].retryCount > event[p].retryCount) =>
            /\ event'[p].paymentSuccessful
            /\ ~ClosedInStep]_vars
\* C31 witness: the challenge was closed, markIssueAsPaid failed, and the
\* re-delivered event ran the second step again without closing again
C31_Witness ==
  \E p \in SeqProcs :
    /\ ctl[p].handler = "handleIssueClose"
    /\ event[p].retryCount > 0
    /\ event[p].paymentSuccessful
    /\ Truthy(local[p].dbIssue)
    /\ Exists(local[p].dbIssue.challengeId)
    /\ challenges[local[p].dbIssue.challengeId].closed = 1
    /\ Called(trace[p], "update")
    /\ ~Called(trace[p], "closeChallenge")

\* the challenge of a record is one createChallenge created for its key
OwnChallenge(r) ==
  /\ Exists(r.challengeId)
  /\ KeyOf(challenges[r.challengeId]) = KeyOf(r)

\* C32: a record is in challenge_creation_successful exactly when it holds
\* a challenge id, that id is of a challenge createChallenge created for
\* the key of the record, and a record in challenge_creation_pending holds
\* no challenge id.
C32_SuccessfulIffChallenge ==
  \A r \in db :
    /\ r.status = "challenge_creation_successful" <=> r.challengeId # NoId
    /\ r.challengeId # NoId => OwnChallenge(r)
    /\ r.status = "challenge_creation_pending" => r.challengeId = NoId
\* C32 witness: a creation has saved the id of the challenge it created
\* and is about to post its comment
C32_Witness ==
  \E p \in SeqProcs :
    /\ ctl[p].pc = "create_createComment"
    /\ \E r \in db :
         /\ r.id = local[p].created.id
         /\ r.status = "challenge_creation_successful"
         /\ r.challengeId = Len(challenges)
         /\ OwnChallenge(r)

IsPending(r) == r.status = "challenge_creation_pending"

\* C33: whenever a run of handleIssueCreate has ended, by success, by a
\* reported failure or by raising, and no other creation of the key is in
\* flight, no record of the key is in challenge_creation_pending.
C33_PendingTransient ==
  \A p \in SeqProcs :
    (ctl[p].handler = "handleIssueCreate" /\ ctl[p].pc = "done") =>
      \A r \in Matching(db, issue[p]) : ~IsPending(r)

IsSuccessful(r) == r.status = "challenge_creation_successful"

\* C34: a record that has reached challenge_creation_successful is never
\* removed from the store by any handler, under any interleaving of the
\* handlings of one key; the failure cleanup of one creation never deletes
\* the record of another, successful creation.
C34_SuccessfulNeverRemoved ==
  [][\A r \in db : IsSuccessful(r) => \E s \in db' : s.id = r.id]_vars

\* the challenges createChallenge created for the key of issue i
ChallengesOf(i) ==
  {c \in 1..Len(challenges) : KeyOf(challenges[c]) = KeyOf(i)}

\* C35: whenever handleIssueCreate has ended, every challenge created for
\* the key of the issue is the challengeId of a record of that key, so a
\* retry after a reported creation failure never leaves two challenges
\* for one issue.
C35_NoOrphanedChallenge ==
  \A p \in SeqProcs :
    (ctl[p].handler = "handleIssueCreate" /\ ctl[p].pc = "done") =>
      /\ \A c \in ChallengesOf(issue[p]) :
           \E r \in Matching(db, issue[p]) : r.challengeId = c
      /\ Cardinality(ChallengesOf(issue[p])) <= 1

IsFailed(r) == r.status = "challenge_creation_failed"

\* an issue.created handling that found a challenge_creation_failed record
\* of its key in the store, seen when its duplicate check has answered
FailedSeenByCreate(p) ==
  /\ ctl[p].handler = "handleIssueCreate"
  /\ Len(trace[p]) >= 2
  /\ trace[p][2] = Call1("scanOne", "Issue", "ok")
  /\ \E r \in Matching(db, issue[p]) : IsFailed(r)

\* C36: a record in challenge_creation_failed is treated as absent by
\* issue.created: the event is never rejected as a duplicate because of
\* it, and when the handling has ended the failed record is gone.
C36_FailedTreatedAsAbsent ==
  \A p \in SeqProcs :
    FailedSeenByCreate(p) =>
      /\ ctl[p].err # "Duplicate"
      /\ ctl[p].pc = "done" => \A r \in Matching(db, issue[p]) : ~IsFailed(r)

====
